---- MODULE Spec2Model ----
(***************************************************************************)
(* SPUMONI (vshiv18/spumoni): the r-index with thresholds that computes    *)
(* matching statistics (MS) and pseudo-matching lengths (PML).             *)
(*                                                                         *)
(* The model follows src/src/compute_ms_pml.cpp: the two index classes     *)
(* pml_pointers / ms_pointers (construction from the prebuilt files,       *)
(* build_F_, read_samples, serialize, load, LF, _query) and the wrapper    *)
(* ms_t / pml_t (matching_statistics and its forward sweep).               *)
(*                                                                         *)
(* Arrays of the program are 0-based; they are modelled as TLA+ sequences  *)
(* and read through At(s, i) == s[i + 1].  Bytes are small naturals.       *)
(***************************************************************************)
EXTENDS Integers, Sequences, FiniteSets, TLC

(***************************************************************************)
(* Bounds of the model and program constants.                              *)
(***************************************************************************)
\* longest reference text, not counting the terminator
MaxN == 3
\* longest query pattern
MaxM == 3
\* size of the byte alphabet (256 in the program: the F table has 256 entries)
Sigma == 6
\* width of size_t / ulint in bits (64 in the program); only the wrap-around
\* at 0 matters, and every other value of the model stays far below 2^SizeBits
SizeBits == 12
\* most runs / longest run of a free-standing (heads, lengths) file pair
MaxRuns == 3
MaxRunLen == 2
\* most reads a driver takes from one pattern file
MaxReads == 2
\* most lines of a RefBuilder file list, and the largest document id in it
MaxFiles == 3
MaxDocId == 3
\* characters one file of the list adds to the output reference
SeqLens == {0, 2}

\* the reserved smallest symbol of the reference
TERMINATOR == 1
\* bytes of one integer of an SA-sample file
SSABYTES == 5

SizeMod == 2 ^ SizeBits

\* the bytes a reference and a pattern are made of (all above TERMINATOR)
Chars == {2, 3, 4}
Bytes == 0 .. (Sigma - 1)

At(s, i) == s[i + 1]

\* unsigned arithmetic of size_t / ulint
USub(a, b) == (a + SizeMod - b) % SizeMod
UAdd(a, b) == (a + b) % SizeMod

Min(a, b) == IF a < b THEN a ELSE b

SeqsUpTo(S, lo, hi) == UNION {[1 .. k -> S] : k \in lo .. hi}

RECURSIVE SumSeq(_)
SumSeq(s) == IF s = <<>> THEN 0 ELSE Head(s) + SumSeq(Tail(s))

(***************************************************************************)
(* The reference and the artifacts the external builder derives from it   *)
(* (suffix array, BWT, LCP, thresholds, SA-sample files).                  *)
(***************************************************************************)
\* length of the longest common prefix of the suffixes of T at i and j
RECURSIVE Lcp(_, _, _)
Lcp(T, i, j) ==
    IF i >= Len(T) \/ j >= Len(T) \/ At(T, i) # At(T, j)
    THEN 0
    ELSE 1 + Lcp(T, i + 1, j + 1)

\* suffix i is lexicographically smaller than suffix j
SufLess(T, i, j) ==
    /\ i # j
    /\ LET k == Lcp(T, i, j)
       IN  IF i + k >= Len(T) THEN TRUE
           ELSE IF j + k >= Len(T) THEN FALSE
           ELSE At(T, i + k) < At(T, j + k)

\* the suffix array: SuffixArray(T)[k+1] is the start of the k-th smallest suffix
SuffixArray(T) ==
    [k \in 1 .. Len(T) |->
        CHOOSE i \in 0 .. (Len(T) - 1) :
            Cardinality({j \in 0 .. (Len(T) - 1) : SufLess(T, j, i)}) = k - 1]

\* the Burrows-Wheeler transform: the character before each sorted suffix
BWTOf(T, sa) ==
    [k \in 1 .. Len(T) |-> At(T, (sa[k] + Len(T) - 1) % Len(T))]

\* run-length encoding of a byte string: <<head, length>> pairs, maximal runs
RECURSIVE RunsOf(_)
RunsOf(s) ==
    IF s = <<>> THEN <<>>
    ELSE LET rest == RunsOf(Tail(s))
         IN  IF rest # <<>> /\ rest[1][1] = Head(s)
             THEN <<<<Head(s), rest[1][2] + 1>>>> \o Tail(rest)
             ELSE <<<<Head(s), 1>>>> \o rest

\* first BWT position of run k (0-based), given the run lengths
RECURSIVE RunStart(_, _)
RunStart(lens, k) == IF k = 0 THEN 0 ELSE RunStart(lens, k - 1) + lens[k]


\* LCP[t]: longest common prefix of the suffixes in BWT rows t-1 and t
LcpRow(T, sa, t) == Lcp(T, At(sa, t - 1), At(sa, t))

\* index (0-based) of the previous run with head c above run k, or -1
RECURSIVE PrevRunOf(_, _, _)
PrevRunOf(heads, k, c) ==
    IF k = 0 THEN -1
    ELSE IF At(heads, k - 1) = c THEN k - 1
    ELSE PrevRunOf(heads, k - 1, c)

\* the thresholds the builder writes, one per run: 0 for the first run of a
\* character, otherwise the first position of minimum LCP between the end of
\* the previous run of the same character and the start of this run
ThresholdsOf(T, sa, runs) ==
    LET heads == [k \in 1 .. Len(runs) |-> runs[k][1]]
        lens  == [k \in 1 .. Len(runs) |-> runs[k][2]]
    IN  [k \in 1 .. Len(runs) |->
            LET p == PrevRunOf(heads, k - 1, heads[k])
            IN  IF p = -1 THEN 0
                ELSE LET e == RunStart(lens, p + 1) - 1
                         s == RunStart(lens, k - 1)
                         best == CHOOSE t \in (e + 1) .. s :
                                    \A u \in (e + 1) .. s :
                                        \/ LcpRow(T, sa, t) < LcpRow(T, sa, u)
                                        \/ (LcpRow(T, sa, t) = LcpRow(T, sa, u) /\ t <= u)
                     IN  best]

\* an SA-sample file: per run one <<left, right>> pair of 5-byte integers,
\* left the BWT position sampled and right the suffix-array value there
SampleFile(sa, runs, atEnd) ==
    LET lens == [k \in 1 .. Len(runs) |-> runs[k][2]]
    IN  [k \in 1 .. Len(runs) |->
            LET p == IF atEnd THEN RunStart(lens, k) - 1 ELSE RunStart(lens, k - 1)
            IN  <<p, At(sa, p)>>]

\* The reference is the concatenation of two documents: document 1 is
\* T[0 .. cut) and document 2 is T[cut .. n), terminator included.
DocOf(cut, p) == IF p < cut THEN 1 ELSE 2

\* the document array file: per run the documents of the text positions
\* sampled at its first and at its last BWT position (the positions that
\* read_samples stores: the suffix-array value minus one, modulo n)
DocFile(T, sa, runs, cut) ==
    LET lens == [k \in 1 .. Len(runs) |-> runs[k][2]]
        n    == Len(T)
    IN  [ start_runs_doc |->
              [k \in 1 .. Len(runs) |->
                  DocOf(cut, (At(sa, RunStart(lens, k - 1)) + n - 1) % n)],
          end_runs_doc |->
              [k \in 1 .. Len(runs) |->
                  DocOf(cut, (At(sa, RunStart(lens, k) - 1) + n - 1) % n)] ]

\* a document array that was never built or loaded
NoDocArray == [start_runs_doc |-> <<>>, end_runs_doc |-> <<>>]

\* where the second document of a two-document reference starts: the
\* documents split the body in the middle
DocCuts(body) == {(Len(body) + 1) \div 2}

\* everything found under the <ref> prefix for a reference with body `body`;
\* the document array is there when docs is set
RefFiles(body, docs, cut) ==
    LET T    == body \o <<TERMINATOR>>
        sa   == SuffixArray(T)
        b    == BWTOf(T, sa)
        runs == RunsOf(b)
    IN  [ T     |-> T,
          bwt   |-> b,
          heads |-> [k \in 1 .. Len(runs) |-> runs[k][1]],
          len   |-> [k \in 1 .. Len(runs) |-> runs[k][2]],
          ssa   |-> SampleFile(sa, runs, FALSE),
          esa   |-> SampleFile(sa, runs, TRUE),
          thr   |-> ThresholdsOf(T, sa, runs),
          cut   |-> cut,
          doc   |-> IF docs THEN DocFile(T, sa, runs, cut) ELSE NoDocArray ]

(***************************************************************************)
(* The run-length BWT (rle_string_t) and its primitives.  The object is    *)
(* the pair of run heads and run lengths.                                  *)
(***************************************************************************)
\* rle_string_t(heads, lengths): bytes <= TERMINATOR are stored as TERMINATOR
rle_from_heads(heads, lens) ==
    [ heads |-> [k \in 1 .. Len(heads) |->
                    IF heads[k] > TERMINATOR THEN heads[k] ELSE TERMINATOR],
      lens  |-> lens ]

\* rle_string_t(stream): the runs of the plain BWT stream
rle_from_stream(stream) ==
    LET runs == RunsOf([k \in 1 .. Len(stream) |->
                           IF stream[k] > TERMINATOR THEN stream[k] ELSE TERMINATOR])
    IN  [ heads |-> [k \in 1 .. Len(runs) |-> runs[k][1]],
          lens  |-> [k \in 1 .. Len(runs) |-> runs[k][2]] ]

bwt_size(b) == SumSeq(b.lens)
number_of_runs(b) == Len(b.heads)

\* id of the run containing position i (for i in [0, size))
run_of_position(b, i) ==
    CHOOSE k \in 0 .. (Len(b.heads) - 1) :
        RunStart(b.lens, k) <= i /\ i < RunStart(b.lens, k + 1)

\* bwt[i]
access(b, i) == At(b.heads, run_of_position(b, i))

\* number of occurrences of c in bwt[0 .. i)
rank(b, i, c) ==
    Cardinality({p \in 0 .. (Min(i, bwt_size(b)) - 1) : access(b, p) = c})

number_of_letter(b, c) == rank(b, bwt_size(b), c)

\* position of the (k+1)-th occurrence of c (for k in [0, occ(c)))
select(b, k, c) ==
    CHOOSE p \in 0 .. (bwt_size(b) - 1) : access(b, p) = c /\ rank(b, p, c) = k

\* the decoded BWT, for stating properties
Expand(b) == [p \in 1 .. bwt_size(b) |-> access(b, p - 1)]

(***************************************************************************)
(* Construction of an index from the prebuilt files.                       *)
(***************************************************************************)
ZeroF == [c \in 1 .. Sigma |-> 0]

\* the tail of build_F_ / build_F: shift the counts up by one entry and
\* replace them by their running sums
RECURSIVE F_running_sum(_, _)
F_running_sum(F, i) ==
    IF i >= Sigma THEN F
    ELSE F_running_sum([F EXCEPT ![i + 1] = F[i + 1] + F[i]], i + 1)

\* mutant of F_prefix_sum: the shift is forgotten (inclusive sums)
F_inclusive_sum(F) == F_running_sum(F, 1)

F_prefix_sum(F) ==
    LET shifted == [c \in 1 .. Sigma |-> IF c = 1 THEN 0 ELSE F[c - 1]]
    IN  F_running_sum(shifted, 1)

\* the counting loop of build_F_: i counts the run heads read so far
RECURSIVE build_F_loop(_, _, _, _, _)
build_F_loop(heads, lens, i, F, tp) ==
    IF i >= Len(heads) THEN [F |-> F, terminator_position |-> tp]
    ELSE LET c      == At(heads, i)
             length == IF i < Len(lens) THEN At(lens, i) ELSE 0
         IN  IF c > TERMINATOR
             THEN build_F_loop(heads, lens, i + 1,
                               [F EXCEPT ![c + 1] = @ + length], tp)
             ELSE build_F_loop(heads, lens, i + 1,
                               [F EXCEPT ![TERMINATOR + 1] = @ + length], i)

\* build_F_(heads, lengths): F and terminator_position from the run files;
\* tp is the value terminator_position had before the call
build_F_(heads, lens, tp) ==
    LET counted == build_F_loop(heads, lens, 0, ZeroF, tp)
    IN  [ F |-> F_prefix_sum(counted.F),
          terminator_position |-> counted.terminator_position ]

\* the counting loop of build_F over the plain BWT stream: i is the position
RECURSIVE build_F_stream_loop(_, _, _, _)
build_F_stream_loop(stream, i, F, tp) ==
    IF i >= Len(stream) THEN [F |-> F, terminator_position |-> tp]
    ELSE LET c == At(stream, i)
         IN  IF c > TERMINATOR
             THEN build_F_stream_loop(stream, i + 1, [F EXCEPT ![c + 1] = @ + 1], tp)
             ELSE build_F_stream_loop(stream, i + 1,
                                      [F EXCEPT ![TERMINATOR + 1] = @ + 1], i)

build_F(stream, tp) ==
    LET counted == build_F_stream_loop(stream, 0, ZeroF, tp)
    IN  [ F |-> F_prefix_sum(counted.F),
          terminator_position |-> counted.terminator_position ]

\* the read loop of read_samples: pair k of the file goes to samples[k]
RECURSIVE read_samples_loop(_, _, _, _)
read_samples_loop(file, n, i, samples) ==
    IF 2 * i + 1 >= Len(file) THEN samples
    ELSE LET right == At(file, 2 * i + 1)
             val   == IF right # 0 THEN right - 1 ELSE n - 1
         IN  read_samples_loop(file, n, i + 1,
                 IF i < Len(samples) THEN [samples EXCEPT ![i + 1] = val] ELSE samples)

\* read_samples(filename, r, n, samples): the file is its sequence of 5-byte
\* integers left0, right0, left1, right1, ...
read_samples(file, r, n) ==
    read_samples_loop(file, n, 0, [k \in 1 .. r |-> 0])

\* An SA-sample file on disk: its complete 5-byte integers (ints) followed by
\* tail further bytes, tail < SSABYTES.
st_size(f) == SSABYTES * Len(f.ints) + f.tail

\* read_samples with its checks on the file size.  asserts tells whether the
\* build keeps assert() (it is compiled out under NDEBUG).
\*   "error":    error("invilid file ..."), the load ends
\*   "abort":    assert(length == r) fails
\*   "overflow": the loop stores past the r entries of the vector
\*   "ok":       the vector is returned
read_samples_file(f, r, n, asserts) ==
    LET length == st_size(f) \div (2 * SSABYTES)
        pairs  == Len(f.ints) \div 2
    IN  IF st_size(f) % SSABYTES # 0
        THEN [status |-> "error", samples |-> <<>>]
        ELSE IF asserts /\ length # r
        THEN [status |-> "abort", samples |-> <<>>]
        ELSE IF pairs > r
        THEN [status |-> "overflow", samples |-> <<>>]
        ELSE [status |-> "ok", samples |-> read_samples(f.ints, r, n)]

\* the flat sequence of 5-byte integers of a sample file
RECURSIVE Flatten(_)
Flatten(pairs) ==
    IF pairs = <<>> THEN <<>>
    ELSE <<Head(pairs)[1], Head(pairs)[2]>> \o Flatten(Tail(pairs))

\* a default-constructed index object
EmptyIndex ==
    [ terminator_position |-> 0,
      F             |-> <<>>,
      bwt           |-> [heads |-> <<>>, lens |-> <<>>],
      r             |-> 0,
      thresholds    |-> <<>>,
      samples_start |-> <<>>,
      samples_last  |-> <<>> ]

\* pml_pointers(filename, rle)
pml_pointers_new(files, rle) ==
    LET b  == IF rle THEN rle_from_heads(files.heads, files.len)
                     ELSE rle_from_stream(files.bwt)
        ft == IF rle THEN build_F_(files.heads, files.len, 0)
                     ELSE build_F(files.bwt, 0)
    IN  [ EmptyIndex EXCEPT
            !.terminator_position = ft.terminator_position,
            !.F          = ft.F,
            !.bwt        = b,
            !.r          = number_of_runs(b),
            !.thresholds = files.thr ]

\* ms_pointers(filename, rle)
ms_pointers_new(files, rle) ==
    LET x == pml_pointers_new(files, rle)
    IN  [ x EXCEPT
            !.samples_start = read_samples(Flatten(files.ssa), x.r, bwt_size(x.bwt)),
            !.samples_last  = read_samples(Flatten(files.esa), x.r, bwt_size(x.bwt)) ]

(***************************************************************************)
(* Serialization.  The archive is a flat stream of integers; a vector is   *)
(* written as its length followed by its entries, and load reads the       *)
(* stream front to back with a cursor.                                     *)
(***************************************************************************)
WriteVec(v) == <<Len(v)>> \o v

\* read one vector at cursor `at` (1-based); next is the cursor after it
ReadVec(s, at) ==
    [ v    |-> SubSeq(s, at + 1, at + s[at]),
      next |-> at + 1 + s[at] ]

\* pml_pointers::serialize
pml_serialize(x) ==
    <<x.terminator_position>> \o WriteVec(x.F)
        \o WriteVec(x.bwt.heads) \o WriteVec(x.bwt.lens)
        \o WriteVec(x.thresholds)

\* ms_pointers::serialize
ms_serialize(x) ==
    <<x.terminator_position>> \o WriteVec(x.F)
        \o WriteVec(x.bwt.heads) \o WriteVec(x.bwt.lens)
        \o WriteVec(x.samples_last)
        \o WriteVec(x.thresholds)
        \o WriteVec(x.samples_start)

\* pml_pointers::load into the object x
pml_load(x, in) ==
    LET f  == ReadVec(in, 2)
        h  == ReadVec(in, f.next)
        l  == ReadVec(in, h.next)
        b  == [heads |-> h.v, lens |-> l.v]
        th == ReadVec(in, l.next)
    IN  [ x EXCEPT
            !.terminator_position = in[1],
            !.F          = f.v,
            !.bwt        = b,
            !.r          = number_of_runs(b),
            !.thresholds = th.v ]

\* mutant of ms_load: the two sample vectors are read in the other order
ms_load_swapped(x, in) ==
    LET f  == ReadVec(in, 2)
        h  == ReadVec(in, f.next)
        l  == ReadVec(in, h.next)
        b  == [heads |-> h.v, lens |-> l.v]
        ss == ReadVec(in, l.next)
        th == ReadVec(in, ss.next)
        sl == ReadVec(in, th.next)
    IN  [ x EXCEPT
            !.terminator_position = in[1],
            !.F             = f.v,
            !.bwt           = b,
            !.r             = number_of_runs(b),
            !.samples_last  = sl.v,
            !.thresholds    = th.v,
            !.samples_start = ss.v ]

\* ms_pointers::load into the object x
ms_load(x, in) ==
    LET f  == ReadVec(in, 2)
        h  == ReadVec(in, f.next)
        l  == ReadVec(in, h.next)
        b  == [heads |-> h.v, lens |-> l.v]
        sl == ReadVec(in, l.next)
        th == ReadVec(in, sl.next)
        ss == ReadVec(in, th.next)
    IN  [ x EXCEPT
            !.terminator_position = in[1],
            !.F             = f.v,
            !.bwt           = b,
            !.r             = number_of_runs(b),
            !.samples_last  = sl.v,
            !.thresholds    = th.v,
            !.samples_start = ss.v ]

(***************************************************************************)
(* The query engines.                                                      *)
(***************************************************************************)
\* mutant of LF: the rank counts position i itself
LF_inclusive(x, i, c) == UAdd(At(x.F, c), rank(x.bwt, i + 1, c))

\* LF(i, c) = F[c] + rank(i, c)
LF(x, i, c) == UAdd(At(x.F, c), rank(x.bwt, i, c))

\* r_index::get_last_run_sample: the suffix-array value at the last BWT
\* position.  read_samples stores right - 1, so it is the stored sample of the
\* last run plus one, modulo n.
get_last_run_sample(x) ==
    (At(x.samples_last, x.r - 1) + 1) % bwt_size(x.bwt)

\* mutant of snap: the threshold test is pos <= thr
snap_threshold_inclusive(x, pos, c) ==
    LET n     == bwt_size(x.bwt)
        occ   == number_of_letter(x.bwt, c)
        rnk   == rank(x.bwt, pos, c)
        below == rnk < occ
        j1    == select(x.bwt, rnk, c)
        run1  == run_of_position(x.bwt, j1)
        bad1  == below /\ run1 >= Len(x.thresholds)
        thr   == IF below /\ ~bad1 THEN At(x.thresholds, run1) ELSE n + 1
        above == pos <= thr
        rnk2  == USub(rnk, 1)
        bad2  == above /\ rnk2 >= occ
        j2    == select(x.bwt, rnk2, c)
        run2  == run_of_position(x.bwt, j2)
    IN  [ below    |-> below,
          above    |-> above,
          oob      |-> pos > n \/ bad1 \/ bad2,
          run      |-> IF above /\ ~bad2 THEN run2 ELSE IF below THEN run1 ELSE 0,
          next_pos |-> IF above /\ ~bad2 THEN j2 ELSE IF below THEN j1 ELSE pos ]

\* mutant of snap: a run of c below pos is taken whatever its threshold
snap_ignore_threshold(x, pos, c) ==
    LET n     == bwt_size(x.bwt)
        occ   == number_of_letter(x.bwt, c)
        rnk   == rank(x.bwt, pos, c)
        below == rnk < occ
        j1    == select(x.bwt, rnk, c)
        run1  == run_of_position(x.bwt, j1)
        above == ~below
        j2    == select(x.bwt, USub(rnk, 1), c)
        run2  == run_of_position(x.bwt, j2)
    IN  [ below    |-> below,
          above    |-> above,
          oob      |-> pos > n,
          run      |-> IF above THEN run2 ELSE run1,
          next_pos |-> IF above THEN j2 ELSE j1 ]

\* mutant of snap: the decrement rnk-- before the second select is forgotten
snap_no_decrement(x, pos, c) ==
    LET n     == bwt_size(x.bwt)
        occ   == number_of_letter(x.bwt, c)
        rnk   == rank(x.bwt, pos, c)
        below == rnk < occ
        j1    == select(x.bwt, rnk, c)
        run1  == run_of_position(x.bwt, j1)
        bad1  == below /\ run1 >= Len(x.thresholds)
        thr   == IF below /\ ~bad1 THEN At(x.thresholds, run1) ELSE n + 1
        above == pos < thr
        bad2  == above /\ rnk >= occ
    IN  [ below    |-> below,
          above    |-> above,
          oob      |-> pos > n \/ bad1 \/ bad2,
          run      |-> IF below THEN run1 ELSE 0,
          next_pos |-> IF below THEN j1 ELSE pos ]

\* The threshold snap shared by the four _query bodies, for a character c
\* that occurs in the BWT and differs from bwt[pos].
\*   below: a run of c starts at or below pos (rnk < number_of_letter(c))
\*   above: the run of c above pos is taken (pos < thr)
\*   oob:   a select / thresholds / samples argument is out of range
snap(x, pos, c) ==
    LET n     == bwt_size(x.bwt)
        occ   == number_of_letter(x.bwt, c)
        rnk   == rank(x.bwt, pos, c)
        below == rnk < occ
        j1    == select(x.bwt, rnk, c)
        run1  == run_of_position(x.bwt, j1)
        bad1  == below /\ run1 >= Len(x.thresholds)
        thr   == IF below /\ ~bad1 THEN At(x.thresholds, run1) ELSE n + 1
        above == pos < thr
        rnk2  == USub(rnk, 1)
        bad2  == above /\ rnk2 >= occ
        j2    == select(x.bwt, rnk2, c)
        run2  == run_of_position(x.bwt, j2)
    IN  [ below    |-> below,
          above    |-> above,
          oob      |-> pos > n \/ bad1 \/ bad2,
          run      |-> IF above /\ ~bad2 THEN run2 ELSE IF below THEN run1 ELSE 0,
          next_pos |-> IF above /\ ~bad2 THEN j2 ELSE IF below THEN j1 ELSE pos ]

\* mutant of pml_query_step: a snap counts the character it lands on
pml_query_step_snap_one(x, pos, length, c) ==
    IF number_of_letter(x.bwt, c) = 0
    THEN [pos |-> LF(x, pos, c), length |-> 0, oob |-> FALSE]
    ELSE IF pos < bwt_size(x.bwt) /\ access(x.bwt, pos) = c
    THEN [pos |-> LF(x, pos, c), length |-> length + 1, oob |-> FALSE]
    ELSE LET sn == snap(x, pos, c)
         IN  [ pos    |-> LF(x, sn.next_pos, c),
               length |-> 1,
               oob    |-> sn.oob ]

\* mutant of pml_query_step: a snap extends the match like a matching step
pml_query_step_snap_extend(x, pos, length, c) ==
    IF number_of_letter(x.bwt, c) = 0
    THEN [pos |-> LF(x, pos, c), length |-> 0, oob |-> FALSE]
    ELSE IF pos < bwt_size(x.bwt) /\ access(x.bwt, pos) = c
    THEN [pos |-> LF(x, pos, c), length |-> length + 1, oob |-> FALSE]
    ELSE LET sn == snap(x, pos, c)
         IN  [ pos    |-> LF(x, sn.next_pos, c),
               length |-> length + 1,
               oob    |-> sn.oob ]

\* mutant of pml_query_step: a character absent from T leaves length alone
pml_query_step_keep_absent(x, pos, length, c) ==
    IF number_of_letter(x.bwt, c) = 0
    THEN [pos |-> UAdd(At(x.F, c), rank(x.bwt, pos, c)), length |-> length, oob |-> FALSE]
    ELSE IF pos < bwt_size(x.bwt) /\ access(x.bwt, pos) = c
    THEN [pos |-> UAdd(At(x.F, c), rank(x.bwt, pos, c)), length |-> length + 1, oob |-> FALSE]
    ELSE LET sn == snap(x, pos, c)
         IN  [ pos    |-> UAdd(At(x.F, c), rank(x.bwt, sn.next_pos, c)),
               length |-> IF sn.below \/ sn.above THEN 0 ELSE length,
               oob    |-> sn.oob ]

\* mutant of pml_query_step: a threshold snap does not reset length
pml_query_step_no_reset(x, pos, length, c) ==
    IF number_of_letter(x.bwt, c) = 0
    THEN [pos |-> UAdd(At(x.F, c), rank(x.bwt, pos, c)), length |-> 0, oob |-> FALSE]
    ELSE IF pos < bwt_size(x.bwt) /\ access(x.bwt, pos) = c
    THEN [pos |-> UAdd(At(x.F, c), rank(x.bwt, pos, c)), length |-> length + 1, oob |-> FALSE]
    ELSE LET sn == snap(x, pos, c)
         IN  [ pos    |-> UAdd(At(x.F, c), rank(x.bwt, sn.next_pos, c)),
               length |-> length,
               oob    |-> sn.oob ]

\* one iteration of the loop of pml_pointers::_query on character c
pml_query_step(x, pos, length, c) ==
    IF number_of_letter(x.bwt, c) = 0
    THEN [pos |-> LF(x, pos, c), length |-> 0, oob |-> FALSE]
    ELSE IF pos < bwt_size(x.bwt) /\ access(x.bwt, pos) = c
    THEN [pos |-> LF(x, pos, c), length |-> length + 1, oob |-> FALSE]
    ELSE LET sn == snap(x, pos, c)
         IN  [ pos    |-> LF(x, sn.next_pos, c),
               length |-> IF sn.below \/ sn.above THEN 0 ELSE length,
               oob    |-> sn.oob ]

\* mutant of ms_query_step: a mismatching step forgets pos = next_pos
ms_query_step_stay(x, pos, sample, c) ==
    IF number_of_letter(x.bwt, c) = 0
    THEN [pos |-> LF(x, pos, c), sample |-> 0, oob |-> FALSE]
    ELSE IF pos < bwt_size(x.bwt) /\ access(x.bwt, pos) = c
    THEN [pos |-> LF(x, pos, c), sample |-> USub(sample, 1), oob |-> FALSE]
    ELSE LET sn  == snap(x, pos, c)
             bad == (sn.below \/ sn.above)
                      /\ (sn.run >= Len(x.samples_start) \/ sn.run >= Len(x.samples_last))
         IN  [ pos    |-> LF(x, pos, c),
               sample |-> IF bad THEN sample
                          ELSE IF sn.above THEN At(x.samples_last, sn.run)
                          ELSE IF sn.below THEN At(x.samples_start, sn.run)
                          ELSE sample,
               oob    |-> sn.oob \/ bad ]

\* one iteration of the loop of ms_pointers::_query on character c
ms_query_step(x, pos, sample, c) ==
    IF number_of_letter(x.bwt, c) = 0
    THEN [pos |-> LF(x, pos, c), sample |-> 0, oob |-> FALSE]
    ELSE IF pos < bwt_size(x.bwt) /\ access(x.bwt, pos) = c
    THEN [pos |-> LF(x, pos, c), sample |-> USub(sample, 1), oob |-> FALSE]
    ELSE LET sn  == snap(x, pos, c)
             bad == (sn.below \/ sn.above)
                      /\ (sn.run >= Len(x.samples_start) \/ sn.run >= Len(x.samples_last))
         IN  [ pos    |-> LF(x, sn.next_pos, c),
               sample |-> IF bad THEN sample
                          ELSE IF sn.above THEN At(x.samples_last, sn.run)
                          ELSE IF sn.below THEN At(x.samples_start, sn.run)
                          ELSE sample,
               oob    |-> sn.oob \/ bad ]

\* mutant of ms_query_doc_step: a matching step leaves sample alone
ms_query_doc_step_keep_sample(x, d, pos, sample, curr, c) ==
    IF number_of_letter(x.bwt, c) = 0
    THEN LET run0 == run_of_position(x.bwt, 0)
             bad0 == run0 >= Len(d.start_runs_doc)
         IN  [ pos |-> LF(x, pos, c), sample |-> 0,
               doc |-> IF bad0 THEN curr ELSE At(d.start_runs_doc, run0),
               oob |-> bad0 ]
    ELSE IF pos < bwt_size(x.bwt) /\ access(x.bwt, pos) = c
    THEN [ pos |-> LF(x, pos, c), sample |-> sample,
           doc |-> curr, oob |-> FALSE ]
    ELSE LET n     == bwt_size(x.bwt)
             occ   == number_of_letter(x.bwt, c)
             rnk   == rank(x.bwt, pos, c)
             below == rnk < occ
             j1    == select(x.bwt, rnk, c)
             run1  == run_of_position(x.bwt, j1)
             bad1  == below /\ (run1 >= Len(x.thresholds)
                                  \/ run1 >= Len(x.samples_start)
                                  \/ run1 >= Len(d.start_runs_doc))
             thr   == IF below /\ ~bad1 THEN At(x.thresholds, run1) ELSE n + 1
             smp1  == IF below /\ ~bad1 THEN At(x.samples_start, run1) ELSE sample
             doc1  == IF below /\ ~bad1 THEN At(d.start_runs_doc, run1) ELSE curr
             pos1  == IF below THEN j1 ELSE pos
             above == pos < thr
             rnk2  == USub(rnk, 1)
             j2    == select(x.bwt, rnk2, c)
             run2  == run_of_position(x.bwt, j2)
             bad2  == above /\ (rnk2 >= occ
                                  \/ run2 >= Len(x.samples_last)
                                  \/ run2 >= Len(d.end_runs_doc))
         IN  IF above /\ ~bad2
             THEN [ pos |-> LF(x, j2, c), sample |-> At(x.samples_last, run2),
                    doc |-> At(d.end_runs_doc, run2), oob |-> pos > n \/ bad1 ]
             ELSE [ pos |-> LF(x, pos1, c), sample |-> smp1,
                    doc |-> doc1, oob |-> pos > n \/ bad1 \/ bad2 ]

\* mutant of pml_query_doc_step: the run above also reads start_runs_doc
pml_query_doc_step_start_only(x, d, pos, length, curr, c) ==
    IF number_of_letter(x.bwt, c) = 0
    THEN [pos |-> LF(x, pos, c), length |-> 0, doc |-> curr, oob |-> FALSE]
    ELSE IF pos < bwt_size(x.bwt) /\ access(x.bwt, pos) = c
    THEN [pos |-> LF(x, pos, c), length |-> length + 1, doc |-> curr, oob |-> FALSE]
    ELSE LET n     == bwt_size(x.bwt)
             occ   == number_of_letter(x.bwt, c)
             rnk   == rank(x.bwt, pos, c)
             below == rnk < occ
             j1    == select(x.bwt, rnk, c)
             run1  == run_of_position(x.bwt, j1)
             bad1  == below /\ (run1 >= Len(x.thresholds)
                                  \/ run1 >= Len(d.start_runs_doc))
             thr   == IF below /\ ~bad1 THEN At(x.thresholds, run1) ELSE n + 1
             doc1  == IF below /\ ~bad1 THEN At(d.start_runs_doc, run1) ELSE curr
             len1  == IF below THEN 0 ELSE length
             pos1  == IF below THEN j1 ELSE pos
             above == pos < thr
             rnk2  == USub(rnk, 1)
             j2    == select(x.bwt, rnk2, c)
             run2  == run_of_position(x.bwt, j2)
             bad2  == above /\ (rnk2 >= occ \/ run2 >= Len(d.end_runs_doc))
         IN  IF above /\ ~bad2
             THEN [ pos |-> LF(x, j2, c), length |-> 0,
                    doc |-> At(d.start_runs_doc, run2), oob |-> pos > n \/ bad1 ]
             ELSE [ pos |-> LF(x, pos1, c), length |-> len1,
                    doc |-> doc1, oob |-> pos > n \/ bad1 \/ bad2 ]

\* one iteration of the loop of the document-aware pml_pointers::_query:
\* curr is curr_doc_id, d the document array
pml_query_doc_step(x, d, pos, length, curr, c) ==
    IF number_of_letter(x.bwt, c) = 0
    THEN [pos |-> LF(x, pos, c), length |-> 0, doc |-> curr, oob |-> FALSE]
    ELSE IF pos < bwt_size(x.bwt) /\ access(x.bwt, pos) = c
    THEN [pos |-> LF(x, pos, c), length |-> length + 1, doc |-> curr, oob |-> FALSE]
    ELSE LET n     == bwt_size(x.bwt)
             occ   == number_of_letter(x.bwt, c)
             rnk   == rank(x.bwt, pos, c)
             below == rnk < occ
             j1    == select(x.bwt, rnk, c)
             run1  == run_of_position(x.bwt, j1)
             bad1  == below /\ (run1 >= Len(x.thresholds)
                                  \/ run1 >= Len(d.start_runs_doc))
             thr   == IF below /\ ~bad1 THEN At(x.thresholds, run1) ELSE n + 1
             doc1  == IF below /\ ~bad1 THEN At(d.start_runs_doc, run1) ELSE curr
             len1  == IF below THEN 0 ELSE length
             pos1  == IF below THEN j1 ELSE pos
             above == pos < thr
             rnk2  == USub(rnk, 1)
             j2    == select(x.bwt, rnk2, c)
             run2  == run_of_position(x.bwt, j2)
             bad2  == above /\ (rnk2 >= occ \/ run2 >= Len(d.end_runs_doc))
         IN  IF above /\ ~bad2
             THEN [ pos |-> LF(x, j2, c), length |-> 0,
                    doc |-> At(d.end_runs_doc, run2), oob |-> pos > n \/ bad1 ]
             ELSE [ pos |-> LF(x, pos1, c), length |-> len1,
                    doc |-> doc1, oob |-> pos > n \/ bad1 \/ bad2 ]

\* one iteration of the loop of the document-aware ms_pointers::_query
ms_query_doc_step(x, d, pos, sample, curr, c) ==
    IF number_of_letter(x.bwt, c) = 0
    THEN LET run0 == run_of_position(x.bwt, 0)
             bad0 == run0 >= Len(d.start_runs_doc)
         IN  [ pos |-> LF(x, pos, c), sample |-> 0,
               doc |-> IF bad0 THEN curr ELSE At(d.start_runs_doc, run0),
               oob |-> bad0 ]
    ELSE IF pos < bwt_size(x.bwt) /\ access(x.bwt, pos) = c
    THEN [ pos |-> LF(x, pos, c), sample |-> USub(sample, 1),
           doc |-> curr, oob |-> FALSE ]
    ELSE LET n     == bwt_size(x.bwt)
             occ   == number_of_letter(x.bwt, c)
             rnk   == rank(x.bwt, pos, c)
             below == rnk < occ
             j1    == select(x.bwt, rnk, c)
             run1  == run_of_position(x.bwt, j1)
             bad1  == below /\ (run1 >= Len(x.thresholds)
                                  \/ run1 >= Len(x.samples_start)
                                  \/ run1 >= Len(d.start_runs_doc))
             thr   == IF below /\ ~bad1 THEN At(x.thresholds, run1) ELSE n + 1
             smp1  == IF below /\ ~bad1 THEN At(x.samples_start, run1) ELSE sample
             doc1  == IF below /\ ~bad1 THEN At(d.start_runs_doc, run1) ELSE curr
             pos1  == IF below THEN j1 ELSE pos
             above == pos < thr
             rnk2  == USub(rnk, 1)
             j2    == select(x.bwt, rnk2, c)
             run2  == run_of_position(x.bwt, j2)
             bad2  == above /\ (rnk2 >= occ
                                  \/ run2 >= Len(x.samples_last)
                                  \/ run2 >= Len(d.end_runs_doc))
         IN  IF above /\ ~bad2
             THEN [ pos |-> LF(x, j2, c), sample |-> At(x.samples_last, run2),
                    doc |-> At(d.end_runs_doc, run2), oob |-> pos > n \/ bad1 ]
             ELSE [ pos |-> LF(x, pos1, c), sample |-> smp1,
                    doc |-> doc1, oob |-> pos > n \/ bad1 \/ bad2 ]

\* Calls a backward step makes to the BWT: rank, select, and lookups in
\* thresholds; mismatch tells that the step's character occurs in T and
\* differs from bwt[pos].
NoCalls == [rank |-> 0, select |-> 0, thresholds |-> 0, mismatch |-> FALSE]

\* LF(pos, c): one rank
LF_calls == [rank |-> 1, select |-> 0, thresholds |-> 0]

\* mutant of snap_calls: rank is called again before the second select
snap_calls_rerank(sn) ==
    [ rank       |-> 1 + (IF sn.above THEN 1 ELSE 0),
      select     |-> (IF sn.below THEN 1 ELSE 0) + (IF sn.above THEN 1 ELSE 0),
      thresholds |-> IF sn.below THEN 1 ELSE 0 ]

\* the threshold snap: rank(pos, c); select(rnk, c) and thresholds[run_of_j]
\* when rnk < number_of_letter(c); select(rnk - 1, c) when pos < thr
snap_calls(sn) ==
    [ rank       |-> 1,
      select     |-> (IF sn.below THEN 1 ELSE 0) + (IF sn.above THEN 1 ELSE 0),
      thresholds |-> IF sn.below THEN 1 ELSE 0 ]

\* one iteration of the loop of _query (any of the four bodies), up to and
\* including pos = LF(pos, c)
step_calls(x, pos, c) ==
    IF number_of_letter(x.bwt, c) = 0
    THEN LF_calls @@ [mismatch |-> FALSE]
    ELSE IF pos < bwt_size(x.bwt) /\ access(x.bwt, pos) = c
    THEN LF_calls @@ [mismatch |-> FALSE]
    ELSE LET sc == snap_calls(snap(x, pos, c))
         IN  [ rank       |-> sc.rank + LF_calls.rank,
               select     |-> sc.select + LF_calls.select,
               thresholds |-> sc.thresholds + LF_calls.thresholds,
               mismatch   |-> TRUE ]

\* pml_pointers::_query from iteration i on: the lengths vector it leaves
RECURSIVE pml_query(_, _, _, _, _, _)
pml_query(x, P, k, p, len, out) ==
    IF k >= Len(P) THEN out
    ELSE LET st == pml_query_step(x, p, len, At(P, Len(P) - k - 1))
         IN  pml_query(x, P, k + 1, st.pos, st.length,
                       [out EXCEPT ![Len(P) - k] = st.length])

\* ms_pointers::_query from iteration i on: the pointers vector it leaves
RECURSIVE ms_query(_, _, _, _, _, _)
ms_query(x, P, k, p, smp, out) ==
    IF k >= Len(P) THEN out
    ELSE LET st == ms_query_step(x, p, smp, At(P, Len(P) - k - 1))
         IN  ms_query(x, P, k + 1, st.pos, st.sample,
                      [out EXCEPT ![Len(P) - k] = st.sample])

\* the document-aware pml_pointers::_query from iteration k on: the lengths
\* and doc_nums vectors it leaves
RECURSIVE pml_query_doc(_, _, _, _, _, _, _, _)
pml_query_doc(x, d, P, k, p, len, curr, out) ==
    IF k >= Len(P) THEN out
    ELSE LET st == pml_query_doc_step(x, d, p, len, curr, At(P, Len(P) - k - 1))
         IN  pml_query_doc(x, d, P, k + 1, st.pos, st.length, st.doc,
                 [ lengths  |-> [out.lengths EXCEPT ![Len(P) - k] = st.length],
                   doc_nums |-> [out.doc_nums EXCEPT ![Len(P) - k] = st.doc] ])

\* the document-aware ms_pointers::_query from iteration k on: the pointers
\* and doc_nums vectors it leaves
RECURSIVE ms_query_doc(_, _, _, _, _, _, _, _)
ms_query_doc(x, d, P, k, p, smp, curr, out) ==
    IF k >= Len(P) THEN out
    ELSE LET st == ms_query_doc_step(x, d, p, smp, curr, At(P, Len(P) - k - 1))
         IN  ms_query_doc(x, d, P, k + 1, st.pos, st.sample, st.doc,
                 [ pointers |-> [out.pointers EXCEPT ![Len(P) - k] = st.sample],
                   doc_nums |-> [out.doc_nums EXCEPT ![Len(P) - k] = st.doc] ])

\* mutant of sweep_reads: the loop condition has no (pos + l) < n test
RECURSIVE sweep_reads_no_text_bound(_, _, _, _, _)
sweep_reads_no_text_bound(T, read, ptrs, i, l) ==
    LET p == At(ptrs, i)
    IN  IF /\ i + l < Len(read)
           /\ (i < 1 \/ p # UAdd(At(ptrs, i - 1), 1))
        THEN {[r |-> i + l, t |-> UAdd(p, l)]}
               \cup (IF UAdd(p, l) < Len(T) /\ At(read, i + l) = At(T, UAdd(p, l))
                     THEN sweep_reads_no_text_bound(T, read, ptrs, i, l + 1)
                     ELSE {})
        ELSE {}

\* the reads made by the condition of the inner while loop at index i:
\* each evaluation of read[i + l] == ra.charAt(pos + l) reads read at r and
\* the text at t
RECURSIVE sweep_reads(_, _, _, _, _)
sweep_reads(T, read, ptrs, i, l) ==
    LET p == At(ptrs, i)
    IN  IF /\ i + l < Len(read)
           /\ UAdd(p, l) < Len(T)
           /\ (i < 1 \/ p # UAdd(At(ptrs, i - 1), 1))
        THEN {[r |-> i + l, t |-> UAdd(p, l)]}
               \cup (IF At(read, i + l) = At(T, UAdd(p, l))
                     THEN sweep_reads(T, read, ptrs, i, l + 1)
                     ELSE {})
        ELSE {}

\* the inner while loop of ms_t::matching_statistics at index i: grows l
\* while the read and the reference agree; T is the random-access text
RECURSIVE sweep_while(_, _, _, _, _)
sweep_while(T, read, ptrs, i, l) ==
    LET p == At(ptrs, i)
    IN  IF /\ i + l < Len(read)
           /\ UAdd(p, l) < Len(T)
           /\ (i < 1 \/ p # UAdd(At(ptrs, i - 1), 1))
           /\ At(read, i + l) = At(T, UAdd(p, l))
        THEN sweep_while(T, read, ptrs, i, l + 1)
        ELSE l

(***************************************************************************)
(* State.                                                                  *)
(***************************************************************************)
VARIABLES
    ref,        \* the prebuilt files under the <ref> prefix (with the text T)
    engine,     \* "pml" (pml_pointers / pml_t) or "ms" (ms_pointers / ms_t)
    built,      \* the index object made by the constructor from the files
    archive,    \* the serialized index file (a stream of integers)
    ms,         \* the index object loaded by pml_t / ms_t (member `ms`)
    pc,         \* "files", "built", "saved", "loaded", "query", "sweep", "done"
    read,       \* the pattern of the running query
    i,          \* loop counter of the running loop (_query, then the sweep)
    pos,        \* BWT position of the running _query
    sample,     \* candidate reference position of the MS _query
    length,     \* current PML value of the PML _query
    l,          \* carried match length of the forward sweep
    lengths,    \* output vector
    pointers,   \* output vector (MS)
    oob,        \* set once a primitive was called outside its range
    use_doc,    \* the document array was requested (build and run option)
    doc_arr,    \* the document array loaded by pml_t / ms_t (member doc_arr)
    curr_doc_id,\* current document of the document-aware _query
    doc_nums,   \* output vector of the document-aware queries
    sfile,      \* an SA-sample file handed to read_samples on its own
    rb,         \* the running RefBuilder constructor: its inputs, locals, outputs
    num_reads,  \* reads the driver has finished (num_reads of the drivers)
    workers,    \* per worker thread: the locals of mt_pml_worker and of its call
    calls       \* calls to the BWT made by the latest backward step

vars == <<calls, workers, num_reads, sfile, rb, ref, engine, built, archive, ms, pc, read, i, pos, sample, length, l,
          lengths, pointers, oob, use_doc, doc_arr, curr_doc_id, doc_nums>>

index_vars == <<workers, num_reads, sfile, rb, ref, engine, built, archive, ms, use_doc, doc_arr>>
query_vars == <<calls, read, i, pos, sample, length, l, lengths, pointers, oob,
                curr_doc_id, doc_nums>>

Zeros(m) == [k \in 1 .. m |-> 0]

\* Longer references: ACAA, where a snap has a run on either side to choose
\* from, and the two references of the documented examples, ABAB and BANANA
\* (A = 2, B = 3, N = 4).
LongBodies == {<<2, 3, 2, 2>>, <<2, 3, 2, 3>>, <<3, 2, 4, 2, 4, 2>>}

\* the reads of the documented examples: ANA, BABA and XANAX (X = 5)
ExampleReads == {<<2, 4, 2>>, <<3, 2, 3, 2>>, <<5, 2, 4, 2, 5>>}

\* the reference texts, without their terminator
Bodies == SeqsUpTo(Chars, 1, MaxN) \cup LongBodies

\* the reads a query is run on
Reads == SeqsUpTo(Chars, 0, MaxM) \cup ExampleReads

\* the worker threads of the multi-threaded PML driver
Threads == {1, 2}

\* the characters of the reads of the worker threads
WorkerChars == {2, 3}

\* a worker between two reads: holder is a new empty vector for every read
IdleWorker ==
    [pc |-> "idle", read |-> <<>>, i |-> 0, pos |-> 0, length |-> 0, holder |-> <<>>]

\* no RefBuilder constructor is running
NoRefBuilder ==
    [ pc |-> "idle", using_doc |-> FALSE, lines |-> <<>>,
      member_num |-> 0, curr_id |-> 0, document_ids |-> <<>>,
      output_open |-> FALSE, written |-> 0,
      iter_index |-> 0, curr_id_seq_length |-> 0, seq_lengths |-> <<>>,
      warnings |-> {}, fdi |-> <<>> ]

\* no free-standing SA-sample file
NoSampleFile == [ints |-> <<>>, tail |-> 0]

\* mutant of Resize: a vector that is long enough is left as it is
Resize_grow_only(v, m) ==
    IF Len(v) >= m THEN v ELSE [k \in 1 .. m |-> IF k <= Len(v) THEN v[k] ELSE 0]

\* std::vector::resize(m): keeps the first m entries, pads with zeros
Resize(v, m) == [k \in 1 .. m |-> IF k <= Len(v) THEN v[k] ELSE 0]

Init ==
    /\ use_doc \in BOOLEAN
    /\ ref \in IF use_doc
               THEN UNION { {RefFiles(body, TRUE, cut) : cut \in DocCuts(body)} :
                            body \in Bodies }
               ELSE {RefFiles(body, FALSE, 0) : body \in Bodies}
    /\ engine \in {"pml", "ms"}
    /\ sfile = NoSampleFile
    /\ rb = NoRefBuilder
    /\ num_reads = 0
    /\ workers = [t \in Threads |-> IdleWorker]
    /\ calls = NoCalls
    /\ doc_arr = NoDocArray
    /\ curr_doc_id = 0
    /\ doc_nums = <<>>
    /\ built = EmptyIndex
    /\ archive = <<>>
    /\ ms = EmptyIndex
    /\ pc = "files"
    /\ read = <<>>
    /\ i = 0
    /\ pos = 0
    /\ sample = 0
    /\ length = 0
    /\ l = 0
    /\ lengths = <<>>
    /\ pointers = <<>>
    /\ oob = FALSE

(***************************************************************************)
(* Building, saving and loading the index.                                 *)
(***************************************************************************)
\* pml_pointers / ms_pointers constructor, rle = true: run heads + run lengths
construct_rle ==
    /\ pc = "files"
    /\ built' = IF engine = "ms" THEN ms_pointers_new(ref, TRUE)
                                 ELSE pml_pointers_new(ref, TRUE)
    /\ pc' = "built"
    /\ UNCHANGED <<workers, num_reads, sfile, rb, ref, engine, archive, ms, use_doc, doc_arr>>
    /\ UNCHANGED query_vars

\* pml_pointers / ms_pointers constructor, rle = false: the plain BWT stream
construct_stream ==
    /\ pc = "files"
    /\ built' = IF engine = "ms" THEN ms_pointers_new(ref, FALSE)
                                 ELSE pml_pointers_new(ref, FALSE)
    /\ pc' = "built"
    /\ UNCHANGED <<workers, num_reads, sfile, rb, ref, engine, archive, ms, use_doc, doc_arr>>
    /\ UNCHANGED query_vars

\* serialize(out)
serialize ==
    /\ pc = "built"
    /\ archive' = IF engine = "ms" THEN ms_serialize(built) ELSE pml_serialize(built)
    /\ pc' = "saved"
    /\ UNCHANGED <<workers, num_reads, sfile, rb, ref, engine, built, ms, use_doc, doc_arr>>
    /\ UNCHANGED query_vars

\* pml_t / ms_t constructor: ms.load(fs_ms) on a default-constructed object,
\* then doc_arr.load(doc_file) when the document array is used
load ==
    /\ pc = "saved"
    /\ ms' = IF engine = "ms" THEN ms_load(ms, archive) ELSE pml_load(ms, archive)
    /\ doc_arr' = IF use_doc THEN ref.doc ELSE doc_arr
    /\ pc' = "loaded"
    /\ UNCHANGED <<workers, num_reads, sfile, rb, ref, engine, built, archive, use_doc>>
    /\ UNCHANGED query_vars

(***************************************************************************)
(* Queries.                                                                *)
(***************************************************************************)
\* pml_t::matching_statistics(read, m, lengths) up to the first loop test of
\* pml_pointers::_query
pml_query_begin ==
    /\ pc = "loaded"
    /\ engine = "pml"
    /\ ~use_doc
    /\ \E P \in Reads :
          /\ read' = P
          /\ lengths' = Resize(lengths, Len(P))
          /\ pc' = IF Len(P) = 0 THEN "done" ELSE "query"
    /\ pos' = USub(bwt_size(ms.bwt), 1)
    /\ length' = 0
    /\ i' = 0
    /\ UNCHANGED <<calls, sample, l, pointers, oob, curr_doc_id, doc_nums>>
    /\ UNCHANGED index_vars

\* one iteration of the loop of pml_pointers::_query
pml_query_iter ==
    /\ pc = "query"
    /\ engine = "pml"
    /\ ~use_doc
    /\ i < Len(read)
    /\ LET m  == Len(read)
           c  == At(read, m - i - 1)
           st == pml_query_step(ms, pos, length, c)
       IN  /\ length' = st.length
           /\ lengths' = [lengths EXCEPT ![m - i] = st.length]
           /\ pos' = st.pos
           /\ oob' = (oob \/ st.oob)
           /\ i' = i + 1
           /\ pc' = IF i + 1 < m THEN "query" ELSE "done"
    /\ calls' = step_calls(ms, pos, At(read, Len(read) - i - 1))
    /\ UNCHANGED <<read, sample, l, pointers, curr_doc_id, doc_nums>>
    /\ UNCHANGED index_vars

\* ms_t::matching_statistics(read, m, lengths, pointers) up to the first loop
\* test of ms_pointers::_query; for an empty read the sweep does nothing
ms_query_begin ==
    /\ pc = "loaded"
    /\ engine = "ms"
    /\ ~use_doc
    /\ \E P \in Reads :
          /\ read' = P
          /\ pointers' = Resize(pointers, Len(P))
          /\ lengths' = IF Len(P) = 0 THEN Resize(lengths, 0) ELSE lengths
          /\ pc' = IF Len(P) = 0 THEN "done" ELSE "query"
    /\ pos' = USub(bwt_size(ms.bwt), 1)
    /\ sample' = get_last_run_sample(ms)
    /\ i' = 0
    /\ UNCHANGED <<calls, length, l, oob, curr_doc_id, doc_nums>>
    /\ UNCHANGED index_vars

\* one iteration of the loop of ms_pointers::_query; after the last one
\* matching_statistics resizes lengths and sets l = 0 for the sweep
ms_query_iter ==
    /\ pc = "query"
    /\ engine = "ms"
    /\ ~use_doc
    /\ i < Len(read)
    /\ LET m  == Len(read)
           c  == At(read, m - i - 1)
           st == ms_query_step(ms, pos, sample, c)
       IN  /\ sample' = st.sample
           /\ pointers' = [pointers EXCEPT ![m - i] = st.sample]
           /\ pos' = st.pos
           /\ oob' = (oob \/ st.oob)
           /\ IF i + 1 < m
              THEN /\ i' = i + 1
                   /\ pc' = "query"
                   /\ UNCHANGED <<lengths, l>>
              ELSE /\ i' = 0
                   /\ pc' = "sweep"
                   /\ lengths' = Resize(lengths, m)
                   /\ l' = 0
    /\ calls' = step_calls(ms, pos, At(read, Len(read) - i - 1))
    /\ UNCHANGED <<read, length, curr_doc_id, doc_nums>>
    /\ UNCHANGED index_vars

\* mutant of sweep_carry: the sweep restarts from length 0 at every index
sweep_carry_reset(l2) == 0

\* the length carried to the next index of the sweep: l = (l == 0 ? 0 : l - 1)
sweep_carry(l2) == IF l2 = 0 THEN 0 ELSE l2 - 1

\* the for loop of ms_t::matching_statistics from index k on: the lengths
RECURSIVE ms_sweep(_, _, _, _, _, _)
ms_sweep(T, P, ptrs, k, len, out) ==
    IF k >= Len(ptrs) THEN out
    ELSE LET l2 == sweep_while(T, P, ptrs, k, len)
         IN  ms_sweep(T, P, ptrs, k + 1, sweep_carry(l2), [out EXCEPT ![k + 1] = l2])

\* one iteration of the for loop of ms_t::matching_statistics
sweep_iter ==
    /\ pc = "sweep"
    /\ i < Len(pointers)
    /\ LET T  == ref.T
           l2 == sweep_while(T, read, pointers, i, l)
       IN  /\ lengths' = [lengths EXCEPT ![i + 1] = l2]
           /\ l' = sweep_carry(l2)
    /\ i' = i + 1
    /\ pc' = IF i + 1 < Len(pointers) THEN "sweep" ELSE "done"
    /\ UNCHANGED <<calls, read, pos, sample, length, pointers, oob, curr_doc_id, doc_nums>>
    /\ UNCHANGED index_vars

\* pml_t::matching_statistics(read, m, lengths, doc_nums) up to the first loop
\* test of the document-aware pml_pointers::_query
pml_query_doc_begin ==
    /\ pc = "loaded"
    /\ engine = "pml"
    /\ use_doc
    /\ \E P \in Reads :
          /\ read' = P
          /\ lengths' = Resize(lengths, Len(P))
          /\ doc_nums' = Resize(doc_nums, Len(P))
          /\ pc' = IF Len(P) = 0 THEN "done" ELSE "query"
    /\ pos' = USub(bwt_size(ms.bwt), 1)
    /\ length' = 0
    /\ LET last == USub(number_of_runs(ms.bwt), 1)
       IN  IF last < Len(doc_arr.end_runs_doc)
           THEN curr_doc_id' = At(doc_arr.end_runs_doc, last) /\ UNCHANGED oob
           ELSE UNCHANGED curr_doc_id /\ oob' = TRUE
    /\ i' = 0
    /\ UNCHANGED <<calls, sample, l, pointers>>
    /\ UNCHANGED index_vars

\* one iteration of the loop of the document-aware pml_pointers::_query
pml_query_doc_iter ==
    /\ pc = "query"
    /\ engine = "pml"
    /\ use_doc
    /\ i < Len(read)
    /\ LET m  == Len(read)
           c  == At(read, m - i - 1)
           st == pml_query_doc_step(ms, doc_arr, pos, length, curr_doc_id, c)
       IN  /\ length' = st.length
           /\ curr_doc_id' = st.doc
           /\ lengths' = [lengths EXCEPT ![m - i] = st.length]
           /\ doc_nums' = [doc_nums EXCEPT ![m - i] = st.doc]
           /\ pos' = st.pos
           /\ oob' = (oob \/ st.oob)
           /\ i' = i + 1
           /\ pc' = IF i + 1 < m THEN "query" ELSE "done"
    /\ calls' = step_calls(ms, pos, At(read, Len(read) - i - 1))
    /\ UNCHANGED <<read, sample, l, pointers>>
    /\ UNCHANGED index_vars

\* ms_t::matching_statistics(read, m, lengths, pointers, doc_nums) up to the
\* first loop test of the document-aware ms_pointers::_query
ms_query_doc_begin ==
    /\ pc = "loaded"
    /\ engine = "ms"
    /\ use_doc
    /\ \E P \in Reads :
          /\ read' = P
          /\ pointers' = Resize(pointers, Len(P))
          /\ doc_nums' = Resize(doc_nums, Len(P))
          /\ lengths' = IF Len(P) = 0 THEN Resize(lengths, 0) ELSE lengths
          /\ pc' = IF Len(P) = 0 THEN "done" ELSE "query"
    /\ pos' = USub(bwt_size(ms.bwt), 1)
    /\ sample' = get_last_run_sample(ms)
    /\ LET last == USub(number_of_runs(ms.bwt), 1)
       IN  IF last < Len(doc_arr.end_runs_doc)
           THEN curr_doc_id' = At(doc_arr.end_runs_doc, last) /\ UNCHANGED oob
           ELSE UNCHANGED curr_doc_id /\ oob' = TRUE
    /\ i' = 0
    /\ UNCHANGED <<calls, length, l>>
    /\ UNCHANGED index_vars

\* one iteration of the loop of the document-aware ms_pointers::_query; after
\* the last one matching_statistics resizes lengths and sets l = 0
ms_query_doc_iter ==
    /\ pc = "query"
    /\ engine = "ms"
    /\ use_doc
    /\ i < Len(read)
    /\ LET m  == Len(read)
           c  == At(read, m - i - 1)
           st == ms_query_doc_step(ms, doc_arr, pos, sample, curr_doc_id, c)
       IN  /\ sample' = st.sample
           /\ curr_doc_id' = st.doc
           /\ pointers' = [pointers EXCEPT ![m - i] = st.sample]
           /\ doc_nums' = [doc_nums EXCEPT ![m - i] = st.doc]
           /\ pos' = st.pos
           /\ oob' = (oob \/ st.oob)
           /\ IF i + 1 < m
              THEN /\ i' = i + 1
                   /\ pc' = "query"
                   /\ UNCHANGED <<lengths, l>>
              ELSE /\ i' = 0
                   /\ pc' = "sweep"
                   /\ lengths' = Resize(lengths, m)
                   /\ l' = 0
    /\ calls' = step_calls(ms, pos, At(read, Len(read) - i - 1))
    /\ UNCHANGED <<read, length>>
    /\ UNCHANGED index_vars

Next ==
    \/ construct_rle
    \/ construct_stream
    \/ serialize
    \/ load
    \/ pml_query_begin
    \/ pml_query_iter
    \/ ms_query_begin
    \/ ms_query_iter
    \/ sweep_iter
    \/ pml_query_doc_begin
    \/ pml_query_doc_iter
    \/ ms_query_doc_begin
    \/ ms_query_doc_iter

Spec == Init /\ [][Next]_vars

TypeOK ==
    /\ pc \in {"files", "built", "saved", "loaded", "query", "sweep", "done"}
    /\ engine \in {"pml", "ms"}
    /\ oob \in BOOLEAN
    /\ use_doc \in BOOLEAN

(***************************************************************************)
(* Reference semantics used to state the claims.                           *)
(***************************************************************************)
T_ref == ref.T
n_ref == Len(ref.T)

\* P[k .. k+L) = T[p .. p+L)
OccursAt(T, P, k, L, p) ==
    /\ p + L <= Len(T)
    /\ \A d \in 0 .. (L - 1) : At(T, p + d) = At(P, k + d)

OccursIn(T, P, k, L) == \E p \in 0 .. (Len(T) - 1) : OccursAt(T, P, k, L, p)

\* length of the longest prefix of P[k..] that occurs anywhere in T,
\* by naive search
NaiveMatchLen(T, P, k) ==
    CHOOSE L \in 0 .. (Len(P) - k) :
        /\ OccursIn(T, P, k, L)
        /\ \A L2 \in (L + 1) .. (Len(P) - k) : ~OccursIn(T, P, k, L2)

\* the characters of T (without the terminator)
Alphabet(T) == {T[k] : k \in 1 .. Len(T)} \ {TERMINATOR}

MsDone  == pc = "done" /\ engine = "ms"
PmlDone == pc = "done" /\ engine = "pml"


InQuery == pc \in {"query", "sweep", "done"}
Loaded  == pc \in {"loaded", "query", "sweep", "done"}

\* a backward step has been made in the running query
Stepped == \/ pc = "query" /\ i >= 1
           \/ pc \in {"sweep", "done"} /\ Len(read) >= 1

\* the character of the latest backward step
LastChar ==
    IF engine = "ms" /\ pc \in {"sweep", "done"}
    THEN At(read, 0)
    ELSE At(read, Len(read) - i)

(***************************************************************************)
(* A second specification: build_F_ applied to a free-standing pair of     *)
(* files, any sequence of (run head, run length) pairs over all bytes.     *)
(***************************************************************************)
\* the run heads of a free-standing heads file: the bytes at and below
\* TERMINATOR, the smallest and the largest byte above it
HeadBytes == {0, TERMINATOR, TERMINATOR + 1, TERMINATOR + 2, Sigma - 1}

NoFiles ==
    [ T |-> <<>>, bwt |-> <<>>, heads |-> <<>>, len |-> <<>>,
      ssa |-> <<>>, esa |-> <<>>, thr |-> <<>>, cut |-> 0, doc |-> NoDocArray ]

InitF ==
    /\ ref \in UNION { { [NoFiles EXCEPT !.heads = h, !.len = ln] :
                            h \in [1 .. k -> HeadBytes], ln \in [1 .. k -> 1 .. MaxRunLen] } :
                       k \in 1 .. MaxRuns }
    /\ engine = "pml"
    /\ sfile = NoSampleFile
    /\ rb = NoRefBuilder
    /\ num_reads = 0
    /\ workers = [t \in Threads |-> IdleWorker]
    /\ calls = NoCalls
    /\ use_doc = FALSE
    /\ doc_arr = NoDocArray
    /\ curr_doc_id = 0
    /\ doc_nums = <<>>
    /\ built = EmptyIndex
    /\ archive = <<>>
    /\ ms = EmptyIndex
    /\ pc = "files"
    /\ read = <<>>
    /\ i = 0
    /\ pos = 0
    /\ sample = 0
    /\ length = 0
    /\ l = 0
    /\ lengths = <<>>
    /\ pointers = <<>>
    /\ oob = FALSE

SpecF == InitF /\ [][construct_rle]_vars

(***************************************************************************)
(* The drivers run one query after the other on the loaded index; the     *)
(* general-text drivers keep one set of output vectors for all reads.      *)
(***************************************************************************)
\* st_pml_general / st_ms_general: the next read of the pattern file, with
\* lengths, pointers and doc_nums as the previous call left them
next_read ==
    /\ pc = "done"
    /\ num_reads + 1 < MaxReads
    /\ num_reads' = num_reads + 1
    /\ pc' = "loaded"
    /\ UNCHANGED <<workers, sfile, rb, ref, engine, built, archive, ms, use_doc, doc_arr>>
    /\ UNCHANGED query_vars

\* the references of the runs with several reads
HistoryBodies == {<<3>>, <<2, 3>>, <<3, 2, 2>>}

InitH == Init /\ \E body \in HistoryBodies : ref.T = body \o <<TERMINATOR>>

SpecH == InitH /\ [][Next \/ next_read]_vars

\* the index as load leaves it
LoadedIndex ==
    IF engine = "ms" THEN ms_load(EmptyIndex, archive) ELSE pml_load(EmptyIndex, archive)

\* the outputs of a query for pattern P on the loaded index x, called with
\* fresh (empty) vectors
FreshOutputs(x, d, P) ==
    LET m    == Len(P)
        p0   == USub(bwt_size(x.bwt), 1)
        doc0 == At(d.end_runs_doc, number_of_runs(x.bwt) - 1)
    IN  IF engine = "pml" /\ ~use_doc
        THEN [ lengths  |-> pml_query(x, P, 0, p0, 0, Zeros(m)) ]
        ELSE IF engine = "pml"
        THEN pml_query_doc(x, d, P, 0, p0, 0, doc0,
                           [lengths |-> Zeros(m), doc_nums |-> Zeros(m)])
        ELSE IF ~use_doc
        THEN CHOOSE o \in
                 { [ pointers |-> ptrs,
                     lengths  |-> ms_sweep(ref.T, P, ptrs, 0, 0, Zeros(m)) ] :
                   ptrs \in {ms_query(x, P, 0, p0, get_last_run_sample(x), Zeros(m))} } :
                 TRUE
        ELSE CHOOSE o \in
                 { [ pointers |-> q.pointers,
                     doc_nums |-> q.doc_nums,
                     lengths  |-> ms_sweep(ref.T, P, q.pointers, 0, 0, Zeros(m)) ] :
                   q \in {ms_query_doc(x, d, P, 0, p0, get_last_run_sample(x), doc0,
                              [pointers |-> Zeros(m), doc_nums |-> Zeros(m)])} } :
                 TRUE

\* the outputs the caller holds when the call has returned
Outputs ==
    IF engine = "pml" /\ ~use_doc THEN [lengths |-> lengths]
    ELSE IF engine = "pml" THEN [lengths |-> lengths, doc_nums |-> doc_nums]
    ELSE IF ~use_doc THEN [pointers |-> pointers, lengths |-> lengths]
    ELSE [pointers |-> pointers, doc_nums |-> doc_nums, lengths |-> lengths]

(***************************************************************************)
(* Concurrent readers: the worker threads of the multi-threaded PML driver *)
(* share one loaded pml_t; each runs matching_statistics on its own reads. *)
(***************************************************************************)
\* mutant of locals_of: pos and length live in one place for all callers
locals_shared(t) == 1

\* where the locals pos and length of thread t's call live: on its own stack
locals_of(t) == t

\* mt_pml_worker: the next read of the thread's chunk, and
\* p->ms->matching_statistics(read, l, holder) up to the first loop test of
\* pml_pointers::_query
worker_begin(t) ==
    /\ pc = "loaded"
    /\ engine = "pml"
    /\ workers[t].pc = "idle"
    /\ \E P \in SeqsUpTo(WorkerChars, 0, MaxM) :
          LET w == [workers EXCEPT
                      ![t].read   = P,
                      ![t].holder = Resize(<<>>, Len(P)),
                      ![t].i      = 0,
                      ![t].pc     = IF Len(P) = 0 THEN "done" ELSE "query"]
          IN  workers' = [w EXCEPT
                      ![locals_of(t)].pos    = USub(bwt_size(ms.bwt), 1),
                      ![locals_of(t)].length = 0]
    /\ UNCHANGED <<num_reads, sfile, rb, ref, engine, built, archive, ms, use_doc, doc_arr, pc>>
    /\ UNCHANGED query_vars

\* one iteration of the loop of pml_pointers::_query in thread t
worker_iter(t) ==
    /\ pc = "loaded"
    /\ workers[t].pc = "query"
    /\ workers[t].i < Len(workers[t].read)
    /\ LET me == workers[t]
           m  == Len(me.read)
           c  == At(me.read, m - me.i - 1)
           st == pml_query_step(ms, workers[locals_of(t)].pos,
                                workers[locals_of(t)].length, c)
           w  == [workers EXCEPT
                      ![t].holder = [me.holder EXCEPT ![m - me.i] = st.length],
                      ![t].i      = me.i + 1,
                      ![t].pc     = IF me.i + 1 < m THEN "query" ELSE "done"]
       IN  workers' = [w EXCEPT
                      ![locals_of(t)].pos    = st.pos,
                      ![locals_of(t)].length = st.length]
    /\ UNCHANGED <<num_reads, sfile, rb, ref, engine, built, archive, ms, use_doc, doc_arr, pc>>
    /\ UNCHANGED query_vars

\* mt_pml_worker: the call has returned, holder and the locals go out of scope
worker_end(t) ==
    /\ pc = "loaded"
    /\ workers[t].pc = "done"
    /\ workers' = [workers EXCEPT ![t] = IdleWorker]
    /\ UNCHANGED <<num_reads, sfile, rb, ref, engine, built, archive, ms, use_doc, doc_arr, pc>>
    /\ UNCHANGED query_vars

\* the references of the runs with several threads: with both characters of
\* the reads, and with one of them absent
ConcurrentBodies == {<<2, 3>>, <<3, 2, 2>>, <<4, 2>>, <<3, 4, 3>>}

InitC ==
    /\ Init
    /\ engine = "pml"
    /\ ~use_doc
    /\ \E body \in ConcurrentBodies : ref.T = body \o <<TERMINATOR>>

NextC ==
    \/ construct_rle
    \/ construct_stream
    \/ serialize
    \/ load
    \/ \E t \in Threads : worker_begin(t)
    \/ \E t \in Threads : worker_iter(t)
    \/ \E t \in Threads : worker_end(t)

SpecC == InitC /\ [][NextC]_vars

\* pml_pointers::_query run alone on pattern P: pos, length and the lengths
\* vector after k iterations
RECURSIVE pml_query_alone(_, _, _)
pml_query_alone(x, P, k) ==
    IF k = 0
    THEN [pos |-> USub(bwt_size(x.bwt), 1), length |-> 0, lengths |-> Zeros(Len(P))]
    ELSE LET before == pml_query_alone(x, P, k - 1)
             st     == pml_query_step(x, before.pos, before.length,
                                      At(P, Len(P) - k))
         IN  [ pos     |-> st.pos,
               length  |-> st.length,
               lengths |-> [before.lengths EXCEPT ![Len(P) - k + 1] = st.length] ]

(***************************************************************************)
(* Third specification: read_samples on an SA-sample file of any size.    *)
(* The state is the constructor just before read_samples(filename +       *)
(* ".esa", r, n, samples_last): the BWT is there, r runs and n characters. *)
(***************************************************************************)
\* values of the 5-byte integers of a free-standing SA-sample file
SampleInts == {0, 1}

\* a BWT of k runs of one character each, the terminator first
UnitRuns(k) ==
    rle_from_heads([j \in 1 .. k |-> IF j = 1 THEN TERMINATOR ELSE 2 + (j % 2)],
                   [j \in 1 .. k |-> 1])

InitS ==
    /\ sfile \in [ ints : SeqsUpTo(SampleInts, 0, 2 * MaxRuns + 1),
                   tail : 0 .. (SSABYTES - 1) ]
    /\ rb = NoRefBuilder
    /\ \E k \in 1 .. MaxRuns :
          built = [EmptyIndex EXCEPT !.bwt = UnitRuns(k), !.r = k]
    /\ ref = NoFiles
    /\ num_reads = 0
    /\ workers = [t \in Threads |-> IdleWorker]
    /\ calls = NoCalls
    /\ engine = "ms"
    /\ use_doc = FALSE
    /\ doc_arr = NoDocArray
    /\ curr_doc_id = 0
    /\ doc_nums = <<>>
    /\ archive = <<>>
    /\ ms = EmptyIndex
    /\ pc = "samples"
    /\ read = <<>>
    /\ i = 0
    /\ pos = 0
    /\ sample = 0
    /\ length = 0
    /\ l = 0
    /\ lengths = <<>>
    /\ pointers = <<>>
    /\ oob = FALSE

\* read_samples(filename + ".esa", r, n, samples_last) of the ms_pointers
\* constructor.  The build keeps assert() or not; a store past the end of
\* the vector either ends the process or goes unnoticed.
load_samples ==
    /\ pc = "samples"
    /\ \E asserts \in BOOLEAN, crash \in BOOLEAN :
          LET res == read_samples_file(sfile, built.r, bwt_size(built.bwt), asserts)
          IN  IF res.status = "ok"
              THEN /\ built' = [built EXCEPT !.samples_last = res.samples]
                   /\ pc' = "built"
              ELSE IF res.status = "overflow" /\ ~crash
              THEN /\ built' = [built EXCEPT !.samples_last =
                                   read_samples(sfile.ints, built.r, bwt_size(built.bwt))]
                   /\ pc' = "built"
              ELSE /\ pc' = "failed"
                   /\ UNCHANGED built
    /\ UNCHANGED <<workers, num_reads, sfile, rb, ref, engine, archive, ms, use_doc, doc_arr>>
    /\ UNCHANGED query_vars

SpecS == InitS /\ [][load_samples]_vars

(***************************************************************************)
(* RefBuilder::RefBuilder (refbuilder.cpp): the constructor that merges    *)
(* the FASTA files of a file list into one reference.  A line of the list  *)
(* is its document id and the number of characters the sequences of its    *)
(* file add to the output (forward and reverse complement, after the       *)
(* digestion); every path names an existing FASTA file and every id is an  *)
(* integer.                                                                *)
(***************************************************************************)
ListLines == [id : 0 .. MaxDocId, len : SeqLens]

\* mutant of check_id: any id from curr_id up is taken
check_id_any_increase(member_num, curr_id, id) ==
    IF member_num = 0 /\ id # 1 THEN "fatal"
    ELSE IF id = curr_id THEN "same"
    ELSE IF id > curr_id THEN "next"
    ELSE "fatal"

\* the test of one document id in the list loop
\*   "fatal": FATAL_ERROR;  "next": curr_id += 1;  "same": curr_id stays
check_id(member_num, curr_id, id) ==
    IF member_num = 0 /\ id # 1 THEN "fatal"
    ELSE IF id = curr_id THEN "same"
    ELSE IF id = curr_id + 1 THEN "next"
    ELSE "fatal"

\* std::vector::back(); on an empty vector the value is whatever is read
Back(v, garbage) == IF Len(v) > 0 THEN v[Len(v)] ELSE garbage

InitR ==
    /\ \E doc \in BOOLEAN, lines \in SeqsUpTo(ListLines, 0, MaxFiles) :
          rb = [ NoRefBuilder EXCEPT !.pc = "list", !.using_doc = doc, !.lines = lines ]
    /\ ref = NoFiles
    /\ sfile = NoSampleFile
    /\ num_reads = 0
    /\ workers = [t \in Threads |-> IdleWorker]
    /\ calls = NoCalls
    /\ engine = "pml"
    /\ use_doc = FALSE
    /\ doc_arr = NoDocArray
    /\ curr_doc_id = 0
    /\ doc_nums = <<>>
    /\ built = EmptyIndex
    /\ archive = <<>>
    /\ ms = EmptyIndex
    /\ pc = "refbuild"
    /\ read = <<>>
    /\ i = 0
    /\ pos = 0
    /\ sample = 0
    /\ length = 0
    /\ l = 0
    /\ lengths = <<>>
    /\ pointers = <<>>
    /\ oob = FALSE

rb_frame ==
    UNCHANGED <<calls, workers, num_reads, sfile, ref, engine, built, archive, ms, pc,
                read, i, pos, sample, length, l, lengths, pointers, oob, use_doc,
                doc_arr, curr_doc_id, doc_nums>>

\* one iteration of the while (std::getline(input_fd, line)) loop
rb_read_line ==
    /\ rb.pc = "list"
    /\ rb.member_num < Len(rb.lines)
    /\ LET ln  == rb.lines[rb.member_num + 1]
           res == check_id(rb.member_num, rb.curr_id, ln.id)
       IN  IF ~rb.using_doc
           THEN rb' = [rb EXCEPT !.member_num = @ + 1]
           ELSE IF res = "fatal"
           THEN rb' = [rb EXCEPT !.pc = "failed"]
           ELSE rb' = [rb EXCEPT !.curr_id = IF res = "next" THEN @ + 1 ELSE @,
                                 !.document_ids = Append(@, ln.id),
                                 !.member_num = @ + 1]
    /\ rb_frame

\* after the list loop: the check of the ids as a whole, then the output
\* files are opened and the locals of the digestion loop are set.  crash:
\* back() on an empty vector ended the process.
rb_open_output ==
    /\ rb.pc = "list"
    /\ rb.member_num = Len(rb.lines)
    /\ \E garbage \in 0 .. MaxDocId, crash \in BOOLEAN :
          IF rb.using_doc /\ rb.document_ids = <<>> /\ crash
          THEN rb' = [rb EXCEPT !.pc = "failed"]
          ELSE rb' = [rb EXCEPT
                        !.warnings = IF rb.using_doc /\ Back(rb.document_ids, garbage) = 1
                                     THEN @ \cup {"one class ID"} ELSE @,
                        !.output_open = TRUE,
                        !.curr_id = 1,
                        !.curr_id_seq_length = 0,
                        !.iter_index = 0,
                        !.pc = "files"]
    /\ rb_frame

\* one iteration of the for loop over input_files: the sequences of the file
\* are written, then the length of a finished document is pushed
rb_digest_file ==
    /\ rb.pc = "files"
    /\ rb.iter_index < Len(rb.lines)
    /\ LET ln    == rb.lines[rb.iter_index + 1]
           len   == rb.curr_id_seq_length + ln.len
           ids   == rb.document_ids
           k     == rb.iter_index
           size1 == USub(Len(ids), 1)
           turn  == k < size1 /\ At(ids, k) # At(ids, k + 1)
           last  == k = size1
       IN  rb' = [rb EXCEPT
                    !.written = @ + ln.len,
                    !.curr_id_seq_length =
                        IF rb.using_doc /\ (turn \/ last) THEN 0 ELSE len,
                    !.seq_lengths =
                        IF rb.using_doc /\ (turn \/ last) THEN Append(@, len) ELSE @,
                    !.curr_id = IF rb.using_doc /\ turn THEN @ + 1 ELSE @,
                    !.iter_index = @ + 1]
    /\ rb_frame

\* after the digestion loop: the empty-reference warning and, with a
\* document array, the .fdi index
rb_finish ==
    /\ rb.pc = "files"
    /\ rb.iter_index = Len(rb.lines)
    /\ \E garbage \in 0 .. MaxDocId :
          LET total_length == SumSeq(rb.seq_lengths)
              warned == [rb EXCEPT !.warnings = IF total_length = 0
                                                THEN @ \cup {"no sequence left"} ELSE @]
          IN  IF ~rb.using_doc
              THEN rb' = [warned EXCEPT !.pc = "done"]
              ELSE IF rb.curr_id # Back(rb.document_ids, garbage)
              THEN rb' = [warned EXCEPT !.pc = "failed"]
              ELSE rb' = [warned EXCEPT !.fdi = rb.seq_lengths, !.pc = "done"]
    /\ rb_frame

NextR == rb_read_line \/ rb_open_output \/ rb_digest_file \/ rb_finish

SpecR == InitR /\ [][NextR]_vars

(***************************************************************************)
(* The claims.                                                             *)
(***************************************************************************)

\* C1: after ms_t::matching_statistics every lengths[k] is the length of the
\* longest prefix of P[k..] occurring anywhere in T, and that prefix occurs in
\* T at pointers[k].
C1_MSCorrect ==
    MsDone =>
        \A k \in 0 .. (Len(read) - 1) :
            /\ At(lengths, k) = NaiveMatchLen(T_ref, read, k)
            /\ OccursAt(T_ref, read, k, At(lengths, k), At(pointers, k))

C3_NoFaultExactSize ==
    /\ ~oob
    /\ pc = "done" =>
          /\ Len(lengths) = Len(read)
          /\ engine = "ms" => Len(pointers) = Len(read)
          /\ use_doc => Len(doc_nums) = Len(read)
          /\ read = <<>> => (lengths = <<>> /\ pointers = <<>> /\ doc_nums = <<>>)

C3_Witness ==
    /\ MsDone
    /\ use_doc
    /\ Len(read) >= 2
    /\ \E k \in 1 .. Len(read) : read[k] \notin Alphabet(T_ref)
    /\ \E k \in 1 .. Len(read) : read[k] \in Alphabet(T_ref)

\* C4: in the MS engine sample, and every value emitted into pointers, lies
\* in [0, n) after every backward step.
C4_SampleInRange ==
    (engine = "ms" /\ InQuery) =>
        /\ sample < n_ref
        /\ \A k \in 1 .. Len(pointers) : pointers[k] < n_ref

\* C5 as stated: pos is in [0, n) in the initial state of a query and after
\* every backward step.
C5_PosBelowN ==
    InQuery => pos < n_ref

\* C5 amended: pos is in [0, n] in the initial state and after every backward
\* step, and it is in [0, n) in the initial state and after every step whose
\* character occurs in T.
C5_PosRange ==
    InQuery =>
        /\ pos <= n_ref
        /\ (~Stepped \/ LastChar \in Alphabet(T_ref)) => pos < n_ref

C5_Witness ==
    /\ InQuery
    /\ Stepped
    /\ LastChar \notin Alphabet(T_ref)
    /\ pos = n_ref

\* C6: the output of ms_t::matching_statistics satisfies
\* lengths[k] <= lengths[k+1] + 1 for every k in [0, m-1).
C6_LengthsSlope ==
    MsDone =>
        \A k \in 0 .. (Len(read) - 2) : At(lengths, k) <= At(lengths, k + 1) + 1

C6_Witness ==
    /\ MsDone
    /\ \E k \in 0 .. (Len(read) - 2) :
          /\ At(lengths, k) >= 2
          /\ At(lengths, k) = At(lengths, k + 1) + 1
    /\ \E k \in 1 .. Len(pointers) : pointers[k] >= n_ref

\* C7: at every pattern position whose character does not occur in T both
\* engines output lengths[k] = 0, and the MS engine outputs pointers[k] = 0.
C7_AbsentIsZero ==
    pc = "done" =>
        \A k \in 0 .. (Len(read) - 1) :
            At(read, k) \notin Alphabet(T_ref) =>
                /\ At(lengths, k) = 0
                /\ engine = "ms" => At(pointers, k) = 0

C7_Witness ==
    /\ MsDone
    /\ \E k \in 1 .. (Len(read) - 2) :
          /\ At(read, k) \notin Alphabet(T_ref)
          /\ At(lengths, k - 1) >= 1
          /\ At(lengths, k + 1) >= 1

\* C8: the loaded index has the terminator_position, F, bwt, r, thresholds
\* and samples of the index that was serialized, and a query on the loaded
\* index gives the output the serialized index gives.
C8_RoundTrip ==
    /\ Loaded =>
          /\ ms.terminator_position = built.terminator_position
          /\ ms.F = built.F
          /\ ms.bwt = built.bwt
          /\ ms.r = built.r
          /\ ms.thresholds = built.thresholds
          /\ ms.samples_last = built.samples_last
          /\ ms.samples_start = built.samples_start
    /\ PmlDone =>
          lengths = pml_query(built, read, 0, USub(bwt_size(built.bwt), 1), 0,
                              Zeros(Len(read)))
    /\ MsDone =>
          /\ pointers = ms_query(built, read, 0, USub(bwt_size(built.bwt), 1),
                                 get_last_run_sample(built), Zeros(Len(read)))
          /\ lengths = ms_sweep(T_ref, read, pointers, 0, 0, Zeros(Len(read)))

C8_Witness ==
    /\ MsDone
    /\ Len(read) >= 2
    /\ built.samples_start # built.samples_last
    /\ built.thresholds # built.samples_last

\* C9: after build_F_, F[c+1] - F[c] is the number of occurrences of c in the
\* BWT for every c, F[TERMINATOR] = 0, and F is non-decreasing.
C9_FIsPrefixSum ==
    pc = "built" =>
        /\ Len(built.F) = Sigma
        /\ \A c \in 0 .. (Sigma - 2) :
              At(built.F, c + 1) - At(built.F, c) = number_of_letter(built.bwt, c)
        /\ At(built.F, Sigma - 1) + number_of_letter(built.bwt, Sigma - 1)
              = bwt_size(built.bwt)
        /\ At(built.F, TERMINATOR) = 0
        /\ \A c \in 0 .. (Sigma - 2) : At(built.F, c) <= At(built.F, c + 1)

C9_Witness ==
    /\ pc = "built"
    /\ Len(ref.heads) >= 3
    /\ \E k \in 1 .. Len(ref.heads) : ref.heads[k] < TERMINATOR
    /\ \E k \in 1 .. Len(ref.heads) : ref.heads[k] > TERMINATOR /\ ref.len[k] >= 2
    /\ \E k \in 1 .. (Len(ref.heads) - 1) : ref.heads[k] > ref.heads[k + 1]

\* C10: after an index is built, terminator_position is a BWT position in
\* [0, n) with bwt[terminator_position] = TERMINATOR, the position the
\* single-stream load path records.
C10_TerminatorPosition ==
    pc = "built" =>
        /\ built.terminator_position < bwt_size(built.bwt)
        /\ access(built.bwt, built.terminator_position) = TERMINATOR
        /\ built.terminator_position = build_F(ref.bwt, 0).terminator_position

(***************************************************************************)
(* C11 .. C20                                                              *)
(***************************************************************************)
\* C11: read_samples ends in a fatal load error, and returns no sample
\* vector, for every SA-sample file whose size is not exactly 2*r*5 bytes.
C11_WrongSizeRejected ==
    (pc \in {"built", "failed"} /\ sfile # NoSampleFile
        /\ st_size(sfile) # 2 * built.r * SSABYTES)
    => (pc = "failed" /\ built.samples_last = <<>>)

\* C12: in the document-aware MS engine, whenever pointers[i] falls inside
\* document d's range of T, doc_nums[i] = d.
C12_DocConsistent ==
    (MsDone /\ use_doc) =>
        \A k \in 1 .. Len(read) :
            pointers[k] < n_ref => doc_nums[k] = DocOf(ref.cut, pointers[k])

\* C13: a query is read-only and history-free: the loaded index and the
\* document array stay what load made them, and the outputs of a finished
\* query are those of the same query on fresh vectors, whatever queries ran
\* before and whatever they left in the caller's vectors.
C13_ReadOnlyHistoryFree ==
    /\ Loaded => /\ ms = LoadedIndex
                 /\ doc_arr = (IF use_doc THEN ref.doc ELSE NoDocArray)
    /\ pc = "done" => Outputs = FreshOutputs(ms, doc_arr, read)

\* a later read of the driver has finished, on the document-aware MS engine,
\* with a match in it
C13_Witness ==
    /\ pc = "done"
    /\ num_reads >= 1
    /\ engine = "ms" /\ use_doc
    /\ Len(read) >= 2
    /\ \E k \in 1 .. Len(read) : lengths[k] >= 2
    /\ ms = LoadedIndex
    /\ Outputs = FreshOutputs(ms, doc_arr, read)

\* C14: when several queries run on one shared loaded index with their
\* backward steps interleaved in any order, each query is at every step in
\* the state it has when run alone, so it returns the output it returns
\* alone; the shared index is never written.
C14_ConcurrentReaders ==
    /\ pc = "loaded" => ms = LoadedIndex
    /\ \A t \in Threads :
          workers[t].pc \in {"query", "done"} =>
              LET alone == pml_query_alone(ms, workers[t].read, workers[t].i)
              IN  /\ workers[t].holder = alone.lengths
                  /\ workers[t].pos    = alone.pos
                  /\ workers[t].length = alone.length

\* two threads are in the middle of two different queries, at different BWT
\* positions and with different current lengths
C14_Witness ==
    /\ workers[1].pc = "query" /\ workers[1].i >= 1
    /\ workers[2].pc = "query" /\ workers[2].i >= 2
    /\ workers[1].read # workers[2].read
    /\ workers[1].pos # workers[2].pos
    /\ workers[1].length # workers[2].length

\* C15: in every backward step whose character occurs in T but differs from
\* bwt[pos], the engine makes at most two calls in total to rank / select and
\* at most one thresholds lookup, the LF advance included.
C15_AtMostTwoCalls ==
    calls.mismatch => /\ calls.rank + calls.select <= 2
                      /\ calls.thresholds <= 1

\* C15 (amended): such a step calls rank exactly twice (once for the snap,
\* once inside LF), select once or twice, and looks up thresholds at most
\* once: at most four calls to rank / select in total, never fewer than three.
C15_AtMostFourCalls ==
    calls.mismatch => /\ calls.rank = 2
                      /\ calls.select \in {1, 2}
                      /\ calls.thresholds <= 1

\* a mismatching step that tried the run below and took the run above
C15_Witness ==
    /\ calls.mismatch
    /\ calls.rank + calls.select = 4
    /\ calls.thresholds = 1

\* the references and reads of the documented examples
BANANA == <<3, 2, 4, 2, 4, 2, TERMINATOR>>
ABAB   == <<2, 3, 2, 3, TERMINATOR>>
XANAX  == <<5, 2, 4, 2, 5>>
ANA    == <<2, 4, 2>>
BABA   == <<3, 2, 3, 2>>

\* C16: with the index of T = BANANA$ and P = XANAX, ms_t::matching_statistics
\* returns lengths = [0, 3, 2, 1, 0].
C16_BananaXanax ==
    (MsDone /\ ref.T = BANANA /\ read = XANAX) => lengths = <<0, 3, 2, 1, 0>>

StepChar == At(read, Len(read) - i - 1)

query_iter ==
    pml_query_iter \/ ms_query_iter \/ pml_query_doc_iter \/ ms_query_doc_iter

\* the character of the step occurs in T and differs from bwt[pos]
Mismatching ==
    /\ number_of_letter(ms.bwt, StepChar) > 0
    /\ ~(pos < bwt_size(ms.bwt) /\ access(ms.bwt, pos) = StepChar)

\* the BWT position the snap rule of the claim names, for position p and
\* character c
SnapTarget(x, p, c) ==
    LET rnk == rank(x.bwt, p, c)
    IN  IF /\ rnk < number_of_letter(x.bwt, c)
           /\ p >= At(x.thresholds, run_of_position(x.bwt, select(x.bwt, rnk, c)))
        THEN select(x.bwt, rnk, c)
        ELSE select(x.bwt, rnk - 1, c)

\* j is the first position of a run of c that starts below p
FirstOfRunBelow(x, p, c, j) ==
    /\ j > p /\ j < bwt_size(x.bwt)
    /\ access(x.bwt, j) = c
    /\ \A q \in p .. (j - 1) : q < bwt_size(x.bwt) => access(x.bwt, q) # c

\* j is the last position of the nearest run of c above p
LastOfRunAbove(x, p, c, j) ==
    /\ j < p
    /\ access(x.bwt, j) = c
    /\ \A q \in (j + 1) .. p : q < bwt_size(x.bwt) => access(x.bwt, q) # c

\* C19: threshold snap rule.  In a mismatching step with rnk = rank(pos, c):
\* if a c-run exists at or below pos and pos >= thresholds[run of
\* select(rnk, c)], pos moves to select(rnk, c), the first position of the
\* next c-run below; otherwise it moves to select(rnk - 1, c), the last
\* position of the nearest c-run above.  The step then applies LF to it.
C19_SnapRule ==
    [][ (query_iter /\ Mismatching) =>
            LET j == SnapTarget(ms, pos, StepChar)
            IN  /\ pos' = LF(ms, j, StepChar)
                /\ \/ FirstOfRunBelow(ms, pos, StepChar, j)
                   \/ LastOfRunAbove(ms, pos, StepChar, j) ]_vars

\* a mismatching step has taken the run below although a run of the same
\* character lies above: pos was at or past the threshold
C19_Witness ==
    /\ pc = "query"
    /\ calls.mismatch
    /\ calls.select = 1 /\ calls.thresholds = 1
    /\ pos > At(ms.F, LastChar)

\* the threshold of the first run of every character of the BWT is 0
FirstRunThresholdsZero(x) ==
    \A c \in Chars \cup {TERMINATOR} :
        number_of_letter(x.bwt, c) > 0 =>
            At(x.thresholds, run_of_position(x.bwt, select(x.bwt, 0, c))) = 0

\* C20: provided the threshold of the first run of every character is 0,
\* every select call of a mismatching step receives a rank in [0, occ(c)):
\* the first one only under rnk < occ(c), the second one never after a
\* decrement at rnk = 0; and the position handed to LF holds c.
C20_SelectInRange ==
    [][ (query_iter /\ Mismatching /\ FirstRunThresholdsZero(ms)) =>
            LET c   == StepChar
                rnk == rank(ms.bwt, pos, c)
                occ == number_of_letter(ms.bwt, c)
                sn  == snap(ms, pos, c)
            IN  /\ sn.below => rnk < occ
                /\ sn.above => (rnk >= 1 /\ rnk - 1 < occ)
                /\ sn.below \/ sn.above
                /\ sn.next_pos < bwt_size(ms.bwt)
                /\ access(ms.bwt, sn.next_pos) = c
                /\ pos' = LF(ms, sn.next_pos, c) ]_vars

\* a mismatching step at rnk = 0: the first run of the character lies below,
\* its threshold 0 keeps the step from decrementing, and pos lands on F[c]
C20_Witness ==
    /\ pc = "query"
    /\ FirstRunThresholdsZero(ms)
    /\ calls.mismatch
    /\ calls.select = 1 /\ calls.thresholds = 1
    /\ pos = At(ms.F, LastChar)

\* ------------------------------------------------------------------------
\* C21 .. C30
\* ------------------------------------------------------------------------

\* one iteration of either overload of pml_pointers::_query
pml_iter == pml_query_iter \/ pml_query_doc_iter

\* the character of the step occurs in T and equals bwt[pos]
Matching ==
    /\ number_of_letter(ms.bwt, StepChar) > 0
    /\ pos < bwt_size(ms.bwt)
    /\ access(ms.bwt, pos) = StepChar

\* the value emitted by the step before this one, 0 at the first step
PrevEmitted == IF i = 0 THEN 0 ELSE At(lengths, Len(read) - i)

\* C21: PML update rule.  The value emitted for a position is the previously
\* emitted value plus 1 exactly when c occurs in T and bwt[pos] = c at that
\* step, and 0 in every other step; hence lengths[m-1] <= 1 and
\* lengths[k] <= lengths[k+1] + 1 for every k written so far.
C21_PMLUpdateRule ==
    [][ pml_iter =>
            LET m == Len(read)
                e == lengths'[m - i]
            IN  /\ Matching => e = PrevEmitted + 1
                /\ ~Matching => e = 0
                /\ lengths'[m] <= 1
                /\ \A k \in (m - i) .. (m - 1) :
                       lengths'[k] <= lengths'[k + 1] + 1 ]_vars

\* a PML query that has extended a match twice in a row and has also reset
\* the length to 0 right after a non-zero value
C21_Witness ==
    /\ PmlDone
    /\ \E k \in 0 .. (Len(read) - 2) :
          At(lengths, k) >= 2 /\ At(lengths, k) = At(lengths, k + 1) + 1
    /\ \E k \in 0 .. (Len(read) - 2) :
          At(lengths, k) = 0 /\ At(lengths, k + 1) >= 1

\* length of the longest common prefix of P[k..] and T[p..]
MatchLenAt(T, P, k, p) ==
    CHOOSE L \in 0 .. (Len(P) - k) :
        /\ OccursAt(T, P, k, L, p)
        /\ \A L2 \in (L + 1) .. (Len(P) - k) : ~OccursAt(T, P, k, L2, p)

\* the sweep guard pos != pointers[k-1] + 1 is false at index k
GuardSkips(k) == k >= 1 /\ At(pointers, k) = UAdd(At(pointers, k - 1), 1)

\* C22: forward-sweep skip is exact.  Whenever pointers[k] = pointers[k-1] + 1
\* the value written, lengths[k] = max(lengths[k-1] - 1, 0), equals the length
\* of the longest common prefix of P[k..] and T[pointers[k]..], also when the
\* pointers are consecutive only because one was set to 0 by an absent
\* character.
C22_SkipExact ==
    MsDone =>
        \A k \in 1 .. (Len(read) - 1) :
            (GuardSkips(k) /\ At(pointers, k) < n_ref) =>
                /\ At(lengths, k) = sweep_carry(At(lengths, k - 1))
                /\ At(lengths, k) = MatchLenAt(T_ref, read, k, At(pointers, k))

\* the PML _query is running or has returned
InPml == engine = "pml" /\ pc \in {"query", "done"}

\* C23: PML soundness.  For every index k the PML engine has written, the
\* substring P[k .. k + lengths[k]) occurs in T.
C23_PMLSound ==
    InPml =>
        \A k \in (Len(read) - i) .. (Len(read) - 1) :
            /\ k + At(lengths, k) <= Len(read)
            /\ OccursIn(T_ref, read, k, At(lengths, k))

\* a PML query has reported a substring of two or more characters that is
\* also the longest one occurring in T at that index
C23_Witness ==
    /\ InPml
    /\ \E k \in (Len(read) - i) .. (Len(read) - 1) :
          /\ At(lengths, k) >= 2
          /\ At(lengths, k) = NaiveMatchLen(T_ref, read, k)

\* the snap of the step takes the run below: rnk < occ(c) and pos >= thr
BelowChosen ==
    LET rnk == rank(ms.bwt, pos, StepChar)
    IN  /\ rnk < number_of_letter(ms.bwt, StepChar)
        /\ pos >= At(ms.thresholds,
                     run_of_position(ms.bwt, select(ms.bwt, rnk, StepChar)))

\* C24: document id update rule of the document-aware PML engine.
\* curr_doc_id starts as end_runs_doc[r-1]; a mismatching step sets it to
\* start_runs_doc[r_j] when the run below is chosen and to end_runs_doc[r_j]
\* when the run above is chosen; matching and absent-character steps leave
\* it unchanged; doc_nums[m-1-i] is the value after step i.
C24_DocIdRule ==
    [][ /\ pml_query_doc_begin =>
              curr_doc_id' = At(doc_arr.end_runs_doc, number_of_runs(ms.bwt) - 1)
        /\ pml_query_doc_iter =>
              LET r_j == run_of_position(ms.bwt, SnapTarget(ms, pos, StepChar))
              IN  /\ (Mismatching /\ BelowChosen) =>
                          curr_doc_id' = At(doc_arr.start_runs_doc, r_j)
                  /\ (Mismatching /\ ~BelowChosen) =>
                          curr_doc_id' = At(doc_arr.end_runs_doc, r_j)
                  /\ ~Mismatching => curr_doc_id' = curr_doc_id
                  /\ doc_nums'[Len(read) - i] = curr_doc_id' ]_vars

\* a document-aware PML query whose document id has changed at a snap and
\* was then carried unchanged through a step that does not snap
C24_Witness ==
    /\ InPml /\ use_doc
    /\ i >= 2
    /\ ~calls.mismatch
    /\ doc_nums[Len(read) - i + 1] = curr_doc_id
    /\ curr_doc_id # At(doc_arr.end_runs_doc, number_of_runs(ms.bwt) - 1)

\* what the plain overloads return for the running read on the loaded index
PlainLengthsPML ==
    pml_query(ms, read, 0, USub(bwt_size(ms.bwt), 1), 0, Zeros(Len(read)))

PlainPointers ==
    ms_query(ms, read, 0, USub(bwt_size(ms.bwt), 1), get_last_run_sample(ms),
             Zeros(Len(read)))

\* C25: the document-aware variants refine the plain ones.  Every step of a
\* document-aware _query leaves pos, length and sample as the plain step
\* does, the document-aware PML query returns the lengths of the plain one,
\* the document-aware MS query its pointers and, after the sweep, its
\* lengths.
C25_DocRefinesPlain ==
    [][ /\ pml_query_doc_iter =>
              LET st == pml_query_step(ms, pos, length, StepChar)
              IN  /\ pos' = st.pos /\ length' = st.length
                  /\ lengths'[Len(read) - i] = st.length
                  /\ pc' = "done" => lengths' = PlainLengthsPML
        /\ ms_query_doc_iter =>
              LET st == ms_query_step(ms, pos, sample, StepChar)
              IN  /\ pos' = st.pos /\ sample' = st.sample
                  /\ pointers'[Len(read) - i] = st.sample
                  /\ pc' = "sweep" => pointers' = PlainPointers
        /\ (sweep_iter /\ use_doc /\ pc' = "done") =>
              /\ pointers = PlainPointers
              /\ lengths' = ms_sweep(ref.T, read, pointers, 0, 0, Zeros(Len(read)))
        /\ pml_query_doc_begin =>
              pos' = USub(bwt_size(ms.bwt), 1) /\ length' = 0
        /\ ms_query_doc_begin =>
              /\ pos' = USub(bwt_size(ms.bwt), 1)
              /\ sample' = get_last_run_sample(ms) ]_vars

\* a document-aware MS query has returned after a snap that changed the
\* document id and a match of two or more characters
C25_Witness ==
    /\ MsDone /\ use_doc
    /\ \E k \in 0 .. (Len(read) - 1) : At(lengths, k) >= 2
    /\ \E k \in 0 .. (Len(read) - 2) : At(doc_nums, k) # At(doc_nums, k + 1)

\* the step at (pos, c) takes the third branch of _query and one of its two
\* if-blocks: the branch that resets length (PML) or reloads sample (MS)
SnapsAt(x, p, c) ==
    /\ number_of_letter(x.bwt, c) > 0
    /\ ~(p < bwt_size(x.bwt) /\ access(x.bwt, p) = c)
    /\ LET sn == snap(x, p, c) IN sn.below \/ sn.above

\* C26: the PML and MS engines walk the same path.  Both start at
\* pos = n - 1; from the same pos on the same index the step of
\* pml_pointers::_query and the step of ms_pointers::_query give the same
\* pos, which is the pos of the running query, and the PML step emits 0 for
\* a present character exactly when the MS step reloads sample from
\* samples_start or samples_last.
C26_SamePath ==
    [][ /\ query_iter =>
              LET c       == StepChar
                  a       == pml_query_step(ms, pos, length, c)
                  b       == ms_query_step(ms, pos, sample, c)
                  snapped == SnapsAt(ms, pos, c)
              IN  /\ a.pos = b.pos
                  /\ pos' = a.pos
                  /\ (number_of_letter(ms.bwt, c) > 0 /\ a.length = 0) = snapped
                  /\ (engine = "ms" /\ snapped) =>
                        LET r_j == run_of_position(ms.bwt, SnapTarget(ms, pos, c))
                        IN  sample' = IF BelowChosen
                                      THEN At(ms.samples_start, r_j)
                                      ELSE At(ms.samples_last, r_j)
                  /\ (engine = "ms" /\ ~snapped) => sample' \in {0, USub(sample, 1)}
        /\ (pml_query_begin \/ ms_query_begin \/ pml_query_doc_begin
               \/ ms_query_doc_begin) =>
              pos' = USub(bwt_size(ms.bwt), 1) ]_vars

\* an MS query whose latest step, not the first, tried the run below and
\* reloaded sample from the run above
C26_Witness ==
    /\ pc = "query" /\ engine = "ms"
    /\ i >= 2
    /\ calls.mismatch /\ calls.select = 2
    /\ \E k \in 0 .. (ms.r - 1) : sample = At(ms.samples_last, k)

\* the value of l on entry to index k of the sweep
SweepEntry(k) == IF k = 0 THEN 0 ELSE sweep_carry(At(lengths, k - 1))

\* C27: the forward sweep never reads out of bounds.  Every charAt(pos + l)
\* has pos + l < n and every read[i + l] has i + l < m, whatever the
\* pointers are, and the sweep writes lengths[i] for exactly the indices
\* 0 .. m-1, one per iteration and in order.
C27_SweepInBounds ==
    [][ sweep_iter =>
            LET m     == Len(read)
                reads == sweep_reads(ref.T, read, pointers, i, l)
            IN  /\ \A a \in reads : a.r < m /\ a.t < n_ref
                /\ Cardinality(reads) \in {lengths'[i + 1] - l, lengths'[i + 1] - l + 1}
                /\ Len(pointers) = m /\ Len(lengths) = m /\ Len(lengths') = m
                /\ i < m /\ i' = i + 1
                /\ l = SweepEntry(i)
                /\ \A k \in 1 .. m : k # i + 1 => lengths'[k] = lengths[k]
                /\ (pc' = "done") = (i + 1 = m) ]_vars

\* a finished sweep that compared characters at an index whose pointer is
\* not a position of T (wrapped below 0)
C27_Witness ==
    /\ MsDone
    /\ \E k \in 0 .. (Len(read) - 1) :
          /\ At(pointers, k) >= n_ref
          /\ sweep_reads(ref.T, read, pointers, k, SweepEntry(k)) # {}

\* the right member of the k-th (left, right) pair of a sample file
RightOf(f, k) == At(f.ints, 2 * k + 1)

\* C28: read_samples stores samples[k] = right - 1 when right != 0 and n - 1
\* when right = 0 for the k-th pair of the file, every stored sample is in
\* [0, n) whenever right <= n, and only indices k < r of the r-element
\* vector are written.
C28_SamplesStored ==
    (pc = "built" /\ sfile # NoSampleFile) =>
        LET n == bwt_size(built.bwt)
        IN  \A k \in 0 .. (Len(sfile.ints) \div 2 - 1) :
                /\ k < built.r
                /\ At(built.samples_last, k) =
                       (IF RightOf(sfile, k) # 0 THEN RightOf(sfile, k) - 1 ELSE n - 1)
                /\ RightOf(sfile, k) <= n => At(built.samples_last, k) < n

\* the document ids of the file list, in the order of its lines
ListIds == [k \in 1 .. Len(rb.lines) |-> rb.lines[k].id]

\* the first id is 1 and every later id is the previous one or one more
ValidIds(ids) ==
    /\ ids[1] = 1
    /\ \A k \in 2 .. Len(ids) : ids[k] = ids[k - 1] \/ ids[k] = ids[k - 1] + 1

\* the list loop of the constructor has ended, by its end or a fatal error
ListDecided == rb.pc \in {"files", "done", "failed"}

\* C29: with a document array, a (non-empty) list of document ids is
\* accepted exactly when the first id is 1 and every later id equals the
\* previous id or the previous id plus 1; any other list ends in a fatal
\* error before any output is written.
C29_IdListValidation ==
    (rb.using_doc /\ Len(rb.lines) >= 1 /\ ListDecided) =>
        /\ (rb.pc # "failed") = ValidIds(ListIds)
        /\ rb.pc # "failed" => rb.document_ids = ListIds
        /\ rb.pc = "failed" =>
              /\ ~rb.output_open /\ rb.written = 0 /\ rb.fdi = <<>>
              /\ rb.seq_lengths = <<>>

\* a list of three ids that stay, then grow by one, has been accepted and
\* the reference written
C29_Witness ==
    /\ rb.using_doc /\ rb.pc = "done"
    /\ Len(rb.lines) >= 3
    /\ \E k \in 1 .. (Len(rb.lines) - 2) :
          /\ ListIds[k] = ListIds[k + 1]
          /\ ListIds[k + 2] = ListIds[k + 1] + 1
    /\ rb.written > 0

\* C30: the constructor issues the empty-reference warning ("After sequence
\* digestion, there is no sequence left") only when the total length of the
\* sequences written to the output reference is 0, with a document array
\* and without.
C30_EmptyWarningOnlyWhenEmpty ==
    rb.pc = "done" =>
        ("no sequence left" \in rb.warnings => rb.written = 0)

====
